---- MODULE Spec2Model ----
(***************************************************************************)
(* State-machine model of the CUDA backend of concrete-core:               *)
(*   - the device resource manager (device.cu, lines 1-159),               *)
(*   - the bootstrapping-key layout and converter (bootstrapping_key.cuh), *)
(*   - the launch configuration and the blind-rotation kernel of the       *)
(*     amortized programmable bootstrap (device.cu, lines 188-608).        *)
(* Memory is counted in bytes, pointers and stream handles are small        *)
(* integers, and the contents of a device buffer are abstracted to a tag   *)
(* that tells what was last written into it.                               *)
(***************************************************************************)
EXTENDS Integers, Sequences, FiniteSets, Bags, TLC

(***************************************************************************)
(* Bounds of the model.                                                    *)
(***************************************************************************)
MaxGpus == 2        \* devices of the machine
TotalMem == 32768   \* bytes of memory of each device
MaxBufs == 2        \* device buffers alive at the same time
MaxStreams == 1     \* stream handles alive at the same time
MaxPending == 1     \* operations waiting in one stream
MaxLweDim == 3      \* mask elements of an input ciphertext (lwe_mask_size)
MaxLevels == 2      \* decomposition levels (l_gadget)
MaxBlocks == 2      \* execution units of a launch (gridDim.x)
MaxCallers == 2     \* host threads that validate and then allocate

(***************************************************************************)
(* Status codes of the resource manager.                                   *)
(***************************************************************************)
OutOfMemory == -1
InvalidPointer == -1
InvalidDevice == -2
ZeroSizeCopy == -3

GpuIndexes == 0..MaxGpus            \* gpu_index arguments, valid or not
Sizes == {0, TotalMem \div 2, TotalMem + 1}   \* size arguments

VARIABLES
  numGpus,     \* what cudaGetDeviceCount reports
  curDevice,   \* the device selected by the last successful cudaSetDevice
  freeMem,     \* free memory of each device, as cudaMemGetInfo reports it
  heap,        \* device buffers: pointer -> NoBuf or [dev, size, data]
  streams,     \* stream handles: handle -> NoStream or [dev, open, queue]
  last,        \* the last entry point called and what it returned
  aborted,     \* checkCudaErrors has ended the process
  SW,          \* the tables SW1 and SW2 in the constant memory of each device
  callers,     \* where each host thread is between its validation and its allocation
  kargs,       \* the arguments of the running kernel and the unit that is modelled
  pc,          \* where that unit is in device_bootstrap_amortized
  iteration,   \* its loop counter over the mask elements
  decomp_level,     \* its loop counter over the decomposition levels
  accumulator,      \* the iterations folded into accumulator_mask / accumulator_body
  accumulator_fft,  \* the digit held, in the frequency domain, by accumulator_fft
  mask_res_fft,     \* the products summed in mask_res_fft
  body_res_fft,     \* the products summed in body_res_fft
  bsk_reads,        \* the bag of the key offsets the unit has read a block at
  bsk_writes,       \* the set of the key offsets the unit has written at
  lwe_in,           \* the input batch: lwe_in[e] is element e, rescaled to [0, 2N)
  lut_vector_indexes,  \* the look-up table of each sample
  lwe_reads,        \* the set of the elements of lwe_in the unit has read
  test_vector,      \* the look-up table and the b_hat the accumulators started from
  rotations,        \* the a_hat the accumulators were rotated by, in order
  lwe_out,          \* what the unit has written to lwe_out, and where
  barriers,         \* the barriers every thread of the unit has passed, in order
  written,          \* the writes to scratch buffers that no barrier has followed
  unfenced,         \* the writer/reader pairs that no barrier separated
  strided           \* a strided loop of the unit, thread after thread

rmVars == <<numGpus, curDevice, freeMem, heap, streams, last, aborted, SW, callers>>
kernelVars == <<kargs, pc, iteration, decomp_level, accumulator, accumulator_fft,
                mask_res_fft, body_res_fft, bsk_reads, bsk_writes,
                strided, lwe_in, lut_vector_indexes, lwe_reads, test_vector, rotations, lwe_out,
                barriers, written, unfenced>>

NoBuf == [dev |-> -1, size |-> 0, data |-> "none"]
NoStream == [dev |-> -1, open |-> FALSE, queue |-> <<>>]
NullPtr == 0
Callers == 1..MaxCallers
NoRequest == [pc |-> "start", size |-> 0, gpu |-> 0]

Devices == 0..(numGpus - 1)
Ptrs == 1..MaxBufs
Handles == 1..MaxStreams
Live(p) == p \in Ptrs /\ heap[p] # NoBuf
Open(s) == s \in Handles /\ streams[s].open
FreeSlots == {p \in Ptrs : heap[p] = NoBuf}
FreeHandles == {s \in Handles : streams[s] = NoStream}

(***************************************************************************)
(* Pointer arguments.  A positive pointer is a device buffer of the heap;  *)
(* a negative one is a host pointer: -1 is pageable host memory, which the *)
(* runtime has never seen, and -(d+2) is page-locked host memory allocated *)
(* while device d was current.  cudaPointerGetAttributes reports the       *)
(* memory kind and the device recorded for the pointer.                    *)
(***************************************************************************)
cudaMemoryTypeUnregistered == "Unregistered"
cudaMemoryTypeHost == "Host"
cudaMemoryTypeDevice == "Device"

HostPtrs == {-1} \cup {-(d + 2) : d \in Devices}
PtrArgs == HostPtrs \cup {p \in Ptrs : Live(p)}

cudaPointerGetAttributes(p) ==
  IF p > 0 THEN [type |-> cudaMemoryTypeDevice, device |-> heap[p].dev]
  ELSE IF p = -1 THEN [type |-> cudaMemoryTypeUnregistered, device |-> -2]
  ELSE [type |-> cudaMemoryTypeHost, device |-> -(p + 2)]

(***************************************************************************)
(* The CUDA runtime.                                                       *)
(***************************************************************************)
\* cudaSetDevice: an index that names no device is an error, which no
\* caller checks, and leaves the current device as it was.
cudaSetDevice(cur, gpu_index) == IF gpu_index < numGpus THEN gpu_index ELSE cur

\* What a completed operation does to the device buffers.
ApplyOp(h, op) ==
  IF op.op = "H2D" /\ op.dst \in Ptrs /\ h[op.dst] # NoBuf
    THEN [h EXCEPT ![op.dst].data = "host"]
  ELSE IF op.op = "FFT" /\ op.dst \in Ptrs /\ h[op.dst] # NoBuf
    THEN [h EXCEPT ![op.dst].data =
            IF op.src \in Ptrs /\ h[op.src].data = "staged" THEN "fft" ELSE "uninit"]
  ELSE IF op.op = "PBS" /\ op.dst \in Ptrs /\ h[op.dst] # NoBuf
    THEN [h EXCEPT ![op.dst].data = "scratch"]
  ELSE h

RECURSIVE ApplyQueue(_, _)
ApplyQueue(h, q) ==
  IF q = <<>> THEN h ELSE ApplyQueue(ApplyOp(h, Head(q)), Tail(q))

\* All outstanding work of device d completes, stream after stream.
RECURSIVE DrainHeap(_, _, _, _)
DrainHeap(h, strs, d, s) ==
  IF s > MaxStreams THEN h
  ELSE DrainHeap(IF strs[s].dev = d THEN ApplyQueue(h, strs[s].queue) ELSE h,
                 strs, d, s + 1)

Reap(st) == IF ~st.open /\ st.queue = <<>> THEN NoStream ELSE st

\* Mutant: the call returns while the streams still hold work.
DrainStreams_None(strs, d) == strs

DrainStreams(strs, d) ==
  [s \in Handles |->
     IF strs[s].dev = d THEN Reap([strs[s] EXCEPT !.queue = <<>>]) ELSE strs[s]]

Outstanding(d) == {s \in Handles : streams[s].dev = d /\ streams[s].queue # <<>>}

(***************************************************************************)
(* The record of a call: the entry point, its arguments, what it returned  *)
(* (kind "status", "pointer", "handle" or "void"; "exit" when              *)
(* checkCudaErrors ended the process) and the runtime calls it made.       *)
(***************************************************************************)
Call(op, gpu, kind, ret, calls, size, ptr) ==
  [op |-> op, gpu |-> gpu, kind |-> kind, ret |-> ret, calls |-> calls,
   size |-> size, ptr |-> ptr, stream |-> 0]

\* Mutant: the test lets the first index past the last device through.
InvalidGpuIndex_OffByOne(gpu_index) == gpu_index > numGpus

\* if (gpu_index >= cuda_get_number_of_gpus()): the test six entry points make
InvalidGpuIndex(gpu_index) == gpu_index >= numGpus

\* Mutant: a request for exactly the free memory is refused.
NotEnoughMemory_AtEqual(size, free_mem) == size >= free_mem

\* if (size > free_mem)
NotEnoughMemory(size, free_mem) == size > free_mem

GetCount == <<"cudaGetDeviceCount">>

InitRM ==
  /\ numGpus = MaxGpus
  /\ curDevice = 0
  /\ freeMem = [d \in Devices |-> TotalMem]
  /\ heap = [p \in Ptrs |-> NoBuf]
  /\ streams = [s \in Handles |-> NoStream]
  /\ last = Call("none", 0, "void", 0, <<>>, 0, NullPtr)
  /\ aborted = FALSE
  /\ SW = [d \in Devices |-> [SW1 |-> <<>>, SW2 |-> <<>>]]
  /\ callers = [c \in Callers |-> NoRequest]

(***************************************************************************)
(* device.cu:7-13.  No check of the index; the stream is created on        *)
(* whatever device is current after cudaSetDevice.                         *)
(***************************************************************************)
cuda_create_stream(gpu_index) ==
  /\ ~aborted
  /\ UNCHANGED <<kernelVars, callers>>
  /\ FreeHandles # {}
  /\ LET s == CHOOSE x \in FreeHandles : \A y \in FreeHandles : x <= y
         d == cudaSetDevice(curDevice, gpu_index)
     IN /\ curDevice' = d
        /\ streams' = [streams EXCEPT ![s] = [dev |-> d, open |-> TRUE, queue |-> <<>>]]
        /\ last' = Call("cuda_create_stream", gpu_index, "handle", s,
                        <<"cudaSetDevice", "cudaStreamCreate">>, 0, NullPtr)
  /\ UNCHANGED <<numGpus, freeMem, heap, aborted, SW>>

(***************************************************************************)
(* device.cu:15-21.  No check of the index.  The handle is gone at once;   *)
(* work already in the stream still completes.                             *)
(***************************************************************************)
cuda_destroy_stream(v_stream, gpu_index) ==
  /\ ~aborted
  /\ UNCHANGED <<kernelVars, callers>>
  /\ Open(v_stream)
  /\ curDevice' = cudaSetDevice(curDevice, gpu_index)
  /\ streams' = [streams EXCEPT ![v_stream] = Reap([@ EXCEPT !.open = FALSE])]
  /\ last' = Call("cuda_destroy_stream", gpu_index, "status", 0,
                  <<"cudaSetDevice", "cudaStreamDestroy">>, 0, NullPtr)
  /\ UNCHANGED <<numGpus, freeMem, heap, aborted, SW>>

(***************************************************************************)
(* device.cu:23-32.  No check of the index or of the free memory: the      *)
(* allocation is tried on the current device and checkCudaErrors ends the  *)
(* process when it fails.  Fresh device memory holds anything.             *)
(***************************************************************************)
cuda_malloc(size, gpu_index) ==
  /\ ~aborted
  /\ UNCHANGED kernelVars
  /\ LET d == cudaSetDevice(curDevice, gpu_index)
         calls == <<"cudaSetDevice", "cudaMalloc">>
     IN /\ curDevice' = d
        /\ IF size = 0
             THEN /\ last' = Call("cuda_malloc", gpu_index, "pointer", NullPtr, calls, size, NullPtr)
                  /\ UNCHANGED <<heap, freeMem, aborted>>
           ELSE IF size > freeMem[d]
             THEN /\ last' = Call("cuda_malloc", gpu_index, "exit", 0, calls, size, NullPtr)
                  /\ aborted' = TRUE
                  /\ UNCHANGED <<heap, freeMem>>
           ELSE /\ FreeSlots # {}
                /\ LET p == CHOOSE x \in FreeSlots : \A y \in FreeSlots : x <= y
                   IN /\ heap' = [heap EXCEPT ![p] = [dev |-> d, size |-> size, data |-> "uninit"]]
                      /\ freeMem' = [freeMem EXCEPT ![d] = @ - size]
                      /\ last' = Call("cuda_malloc", gpu_index, "pointer", p, calls, size, p)
                /\ UNCHANGED aborted
  /\ UNCHANGED <<numGpus, streams, SW>>

(***************************************************************************)
(* device.cu:34-52.                                                        *)
(***************************************************************************)
cuda_check_valid_malloc(size, gpu_index) ==
  /\ ~aborted
  /\ UNCHANGED kernelVars
  /\ IF InvalidGpuIndex(gpu_index)
       THEN /\ last' = Call("cuda_check_valid_malloc", gpu_index, "status", InvalidDevice,
                            GetCount, size, NullPtr)
            /\ UNCHANGED curDevice
     ELSE /\ curDevice' = cudaSetDevice(curDevice, gpu_index)
          /\ last' = Call("cuda_check_valid_malloc", gpu_index, "status",
                          IF NotEnoughMemory(size, freeMem[curDevice']) THEN OutOfMemory ELSE 0,
                          GetCount \o <<"cudaSetDevice", "cudaMemGetInfo">>, size, NullPtr)
  /\ UNCHANGED <<numGpus, freeMem, heap, streams, aborted, SW>>

(***************************************************************************)
(* cudaMemcpyAsync(..., kind, *stream) as the two copies call it.  With a  *)
(* device pointer and a stream of the current device the copy is enqueued. *)
(* A pointer that is not device memory does not match the direction of the *)
(* copy, and a stream of another device is not a handle of the current     *)
(* one: the runtime may take the copy or refuse it, and checkCudaErrors    *)
(* ends the process when it refuses.                                       *)
(***************************************************************************)
CopyOutcomes(attr, v_stream, gpu_index) ==
  IF attr.type = cudaMemoryTypeDevice /\ streams[v_stream].dev = gpu_index
    THEN {"enqueued"}
    ELSE {"enqueued", "refused"}

\* The device buffer a queued operation works on (none for a host pointer).
DevicePtr(p) == IF p > 0 THEN p ELSE NullPtr

\* Mutant: the copy is not put in the stream.
Enqueue_Dropped(strs, v_stream, op) == strs

Enqueue(strs, v_stream, op) ==
  [strs EXCEPT ![v_stream].queue = Append(@, op)]

\* The test both copies make on the attributes of the device-side pointer.
InvalidDevicePointer(attr, gpu_index) ==
  attr.device # gpu_index /\ attr.type # cudaMemoryTypeDevice

\* The body shared by the two copies: `ptr` is the pointer whose attributes
\* are read (dest of a copy to the GPU, src of a copy to the CPU).
MemcpyAsync(name, kind, ptr, size, v_stream, gpu_index) ==
  /\ ~aborted
  /\ UNCHANGED <<kernelVars, callers>>
  /\ Open(v_stream)
  /\ IF size = 0
       THEN /\ last' = [Call(name, gpu_index, "status", ZeroSizeCopy, <<>>, size, ptr)
                         EXCEPT !.stream = v_stream]
            /\ UNCHANGED <<curDevice, streams, aborted>>
     ELSE IF InvalidGpuIndex(gpu_index)
       THEN /\ last' = [Call(name, gpu_index, "status", InvalidDevice, GetCount, size, ptr)
                         EXCEPT !.stream = v_stream]
            /\ UNCHANGED <<curDevice, streams, aborted>>
     ELSE IF InvalidDevicePointer(cudaPointerGetAttributes(ptr), gpu_index)
       THEN /\ last' = [Call(name, gpu_index, "status", InvalidPointer,
                             GetCount \o <<"cudaPointerGetAttributes">>, size, ptr)
                         EXCEPT !.stream = v_stream]
            /\ UNCHANGED <<curDevice, streams, aborted>>
     ELSE /\ curDevice' = cudaSetDevice(curDevice, gpu_index)
          /\ \E outcome \in CopyOutcomes(cudaPointerGetAttributes(ptr), v_stream, gpu_index) :
               LET calls == GetCount \o
                      <<"cudaPointerGetAttributes", "cudaSetDevice", "cudaMemcpyAsync">>
               IN IF outcome = "enqueued"
                    THEN /\ Len(streams[v_stream].queue) < MaxPending
                         /\ streams' = Enqueue(streams, v_stream,
                               [op |-> kind,
                                dst |-> IF kind = "H2D" THEN DevicePtr(ptr) ELSE NullPtr,
                                src |-> IF kind = "D2H" THEN DevicePtr(ptr) ELSE NullPtr])
                         /\ last' = [Call(name, gpu_index, "status", 0, calls, size, ptr)
                                      EXCEPT !.stream = v_stream]
                         /\ UNCHANGED aborted
                  ELSE /\ last' = [Call(name, gpu_index, "exit", 0, calls, size, ptr)
                                    EXCEPT !.stream = v_stream]
                       /\ aborted' = TRUE
                       /\ UNCHANGED streams
  /\ UNCHANGED <<numGpus, freeMem, heap, SW>>

\* device.cu:54-81
cuda_memcpy_async_to_gpu(dest, size, v_stream, gpu_index) ==
  MemcpyAsync("cuda_memcpy_async_to_gpu", "H2D", dest, size, v_stream, gpu_index)

\* device.cu:96-123
cuda_memcpy_async_to_cpu(src, size, v_stream, gpu_index) ==
  MemcpyAsync("cuda_memcpy_async_to_cpu", "D2H", src, size, v_stream, gpu_index)

(***************************************************************************)
(* device.cu:83-94.  cudaDeviceSynchronize returns when all the work of    *)
(* the current device has completed.                                       *)
(***************************************************************************)
cuda_synchronize_device(gpu_index) ==
  /\ ~aborted
  /\ UNCHANGED <<kernelVars, callers>>
  /\ IF InvalidGpuIndex(gpu_index)
       THEN /\ last' = Call("cuda_synchronize_device", gpu_index, "status", InvalidDevice,
                            GetCount, 0, NullPtr)
            /\ UNCHANGED <<curDevice, heap, streams>>
     ELSE /\ curDevice' = cudaSetDevice(curDevice, gpu_index)
          /\ heap' = DrainHeap(heap, streams, curDevice', 1)
          /\ streams' = DrainStreams(streams, curDevice')
          /\ last' = Call("cuda_synchronize_device", gpu_index, "status", 0,
                          GetCount \o <<"cudaSetDevice", "cudaDeviceSynchronize">>,
                          0, NullPtr)
  /\ UNCHANGED <<numGpus, freeMem, aborted, SW>>

(***************************************************************************)
(* cudaFree: a null pointer is accepted and nothing is done; a live buffer *)
(* is released once the work of its device has completed (cudaFree         *)
(* synchronizes the device); anything else is an error.                    *)
(***************************************************************************)
cudaFreeOk(h, p) == p = NullPtr \/ (p \in Ptrs /\ h[p] # NoBuf)

HeapAfterFree(h, strs, p) ==
  IF p = NullPtr THEN h
  ELSE [DrainHeap(h, strs, h[p].dev, 1) EXCEPT ![p] = NoBuf]

StreamsAfterFree(h, strs, p) ==
  IF p = NullPtr THEN strs ELSE DrainStreams(strs, h[p].dev)

FreeMemAfterFree(fm, h, p) ==
  IF p = NullPtr THEN fm ELSE [fm EXCEPT ![h[p].dev] = @ + h[p].size]

(***************************************************************************)
(* device.cu:132-141.                                                      *)
(***************************************************************************)
cuda_drop(ptr, gpu_index) ==
  /\ ~aborted
  /\ UNCHANGED <<kernelVars, callers>>
  /\ IF InvalidGpuIndex(gpu_index)
       THEN /\ last' = Call("cuda_drop", gpu_index, "status", InvalidDevice, GetCount, 0, ptr)
            /\ UNCHANGED <<curDevice, heap, freeMem, streams, aborted>>
     ELSE /\ curDevice' = cudaSetDevice(curDevice, gpu_index)
          /\ LET calls == GetCount \o <<"cudaSetDevice", "cudaFree">>
             IN IF cudaFreeOk(heap, ptr)
                  THEN /\ heap' = HeapAfterFree(heap, streams, ptr)
                       /\ streams' = StreamsAfterFree(heap, streams, ptr)
                       /\ freeMem' = FreeMemAfterFree(freeMem, heap, ptr)
                       /\ last' = Call("cuda_drop", gpu_index, "status", 0, calls, 0, ptr)
                       /\ UNCHANGED aborted
                ELSE /\ last' = Call("cuda_drop", gpu_index, "exit", 0, calls, 0, ptr)
                     /\ aborted' = TRUE
                     /\ UNCHANGED <<heap, freeMem, streams>>
  /\ UNCHANGED <<numGpus, SW>>

(***************************************************************************)
(* device.cu:143-159.  The properties of the devices of the model: an      *)
(* older generation (major 7) and a newer one (major 8).                   *)
(***************************************************************************)
cudaGetDeviceProperties(d) ==
  IF d = 0
    THEN [major |-> 7, sharedMemPerMultiprocessor |-> 98304, sharedMemPerBlock |-> 49152,
          sharedMemPerBlockOptin |-> 98304]
    ELSE [major |-> 8, sharedMemPerMultiprocessor |-> 167936, sharedMemPerBlock |-> 49152,
          sharedMemPerBlockOptin |-> 166912]

max_shared_memory_of(prop) ==
  IF prop.major > 7 THEN prop.sharedMemPerMultiprocessor ELSE prop.sharedMemPerBlock

cuda_get_max_shared_memory(gpu_index) ==
  /\ ~aborted
  /\ UNCHANGED <<kernelVars, callers>>
  /\ IF InvalidGpuIndex(gpu_index)
       THEN /\ last' = Call("cuda_get_max_shared_memory", gpu_index, "status", InvalidDevice,
                            GetCount, 0, NullPtr)
            /\ UNCHANGED curDevice
     ELSE /\ curDevice' = cudaSetDevice(curDevice, gpu_index)
          /\ last' = Call("cuda_get_max_shared_memory", gpu_index, "status",
                          max_shared_memory_of(cudaGetDeviceProperties(gpu_index)),
                          GetCount \o <<"cudaSetDevice", "cudaGetDeviceProperties">>,
                          0, NullPtr)
  /\ UNCHANGED <<numGpus, freeMem, heap, streams, aborted, SW>>

(***************************************************************************)
(* The device: the operation at the head of a stream completes.            *)
(***************************************************************************)
DeviceComplete(s) ==
  /\ ~aborted
  /\ UNCHANGED <<kernelVars, callers>>
  /\ s \in Handles
  /\ streams[s].queue # <<>>
  /\ heap' = ApplyOp(heap, Head(streams[s].queue))
  /\ streams' = [streams EXCEPT ![s] = Reap([@ EXCEPT !.queue = Tail(@)])]
  /\ UNCHANGED <<numGpus, curDevice, freeMem, last, aborted, SW>>

(***************************************************************************)
(* bootstrapping_key.cuh:33-62, cuda_initialize_twiddles.  `bit` is always *)
(* zero or a power of two, so j & bit and j ^= bit are computed on the one *)
(* binary digit of j that bit selects.                                     *)
(***************************************************************************)
BitAnd1(j, bit) == IF bit > 0 /\ (j \div bit) % 2 = 1 THEN bit ELSE 0
BitXor1(j, bit) == IF BitAnd1(j, bit) # 0 THEN j - bit ELSE j + bit

\* Mutant: the increment without its carry: only the top bit is flipped.
NextReversed_NoCarry(j, bit) == BitXor1(j, bit)

\* for (; j & bit; bit >>= 1) j ^= bit;  j ^= bit;
RECURSIVE NextReversed(_, _)
NextReversed(j, bit) ==
  IF BitAnd1(j, bit) # 0 THEN NextReversed(BitXor1(j, bit), bit \div 2)
  ELSE BitXor1(j, bit)

\* `count` consecutive iterations of the loop over i, entered with the values
\* i and j: the pairs they append, in order, and the j they leave.  The run is
\* cut in two halves that are made one after the other.
TheOne(S) == CHOOSE x \in S : TRUE

RECURSIVE TwiddleLoop(_, _, _, _)
TwiddleLoop(i, j, count, sw_size) ==
  IF count <= 0 THEN [j |-> j, SW1 |-> <<>>, SW2 |-> <<>>]
  ELSE IF count = 1
    THEN LET j2 == NextReversed(j, sw_size \div 2)
         IN IF i < j2 THEN [j |-> j2, SW1 |-> <<i>>, SW2 |-> <<j2>>]
            ELSE [j |-> j2, SW1 |-> <<>>, SW2 |-> <<>>]
  ELSE TheOne({TheOne({[j |-> rest.j,
                        SW1 |-> first.SW1 \o rest.SW1,
                        SW2 |-> first.SW2 \o rest.SW2] :
                 rest \in {TwiddleLoop(i + count \div 2, first.j,
                                       count - count \div 2, sw_size)}}) :
          first \in {TwiddleLoop(i, j, count \div 2, sw_size)}})

Zeros(n) == [k \in 1..n |-> 0]

\* sw1_h and sw2_h as they are uploaded: the pairs, then the zeros of memset.
TwiddleTables(polynomial_size) ==
  LET sw_size == polynomial_size \div 2
      sw == TwiddleLoop(1, 0, sw_size - 1, sw_size)
      cnt == Len(sw.SW1)
  IN [SW1 |-> sw.SW1 \o Zeros(sw_size - cnt),
      SW2 |-> sw.SW2 \o Zeros(sw_size - cnt),
      cnt |-> cnt]

\* The tables of the degrees the model calls the builder with, computed once.
TwiddleDegrees == {512}
TwiddleTablesOf == [N \in {512, 1024, 2048, 4096, 8192} |-> TwiddleTables(N)]

\* Mutant: the upload lands after what the symbol already holds.
cudaMemcpyToSymbol_Appended(symbol, src) == symbol \o src

\* cudaMemcpyToSymbol(symbol, src, count, 0): the first entries of the symbol
\* are overwritten, the others keep what they held.
cudaMemcpyToSymbol(symbol, src) ==
  src \o SubSeq(symbol, Len(src) + 1, Len(symbol))

cuda_initialize_twiddles(polynomial_size, gpu_index) ==
  /\ ~aborted
  /\ UNCHANGED <<kernelVars, callers>>
  /\ curDevice' = cudaSetDevice(curDevice, gpu_index)
  /\ LET t == TwiddleTablesOf[polynomial_size]
     IN SW' = [SW EXCEPT ![curDevice'] =
                 [SW1 |-> cudaMemcpyToSymbol(@.SW1, t.SW1),
                  SW2 |-> cudaMemcpyToSymbol(@.SW2, t.SW2)]]
  /\ last' = [Call("cuda_initialize_twiddles", gpu_index, "void", 0,
                   <<"cudaSetDevice", "cudaMemcpyToSymbol", "cudaMemcpyToSymbol">>,
                   0, NullPtr) EXCEPT !.size = polynomial_size]
  /\ UNCHANGED <<numGpus, freeMem, heap, streams, aborted>>

(***************************************************************************)
(* bootstrapping_key.cuh:10-31.  The offset, in double2 elements, of a     *)
(* block of the key in the frequency domain.  Products and quotients are   *)
(* taken from left to right, as C++ takes them.  The operands are int and  *)
(* uint32_t, so the arithmetic is that of uint32_t; every value computed   *)
(* here is below 2^31 (TLC stops on a product that is not), where it is    *)
(* the arithmetic of the integers.                                         *)
(***************************************************************************)
get_start_ith_ggsw(i, polynomial_size, glwe_dimension, l_gadget) ==
  ((((i * polynomial_size) \div 2) * (glwe_dimension + 1)) * (glwe_dimension + 1))
    * l_gadget

get_ith_mask_kth_block(i, k, level, polynomial_size, glwe_dimension, l_gadget) ==
  get_start_ith_ggsw(i, polynomial_size, glwe_dimension, l_gadget)
  + (((level * polynomial_size) \div 2) * (glwe_dimension + 1)) * (glwe_dimension + 1)
  + ((k * polynomial_size) \div 2) * (glwe_dimension + 1)

\* Mutant: the body block starts where the mask block of the same k starts.
get_ith_body_kth_block_NoHalf(i, k, level, polynomial_size, glwe_dimension, l_gadget) ==
  get_start_ith_ggsw(i, polynomial_size, glwe_dimension, l_gadget)
  + (((level * polynomial_size) \div 2) * (glwe_dimension + 1)) * (glwe_dimension + 1)
  + ((k * polynomial_size) \div 2) * (glwe_dimension + 1)

get_ith_body_kth_block(i, k, level, polynomial_size, glwe_dimension, l_gadget) ==
  get_start_ith_ggsw(i, polynomial_size, glwe_dimension, l_gadget)
  + (((level * polynomial_size) \div 2) * (glwe_dimension + 1)) * (glwe_dimension + 1)
  + ((k * polynomial_size) \div 2) * (glwe_dimension + 1)
  + polynomial_size \div 2

(***************************************************************************)
(* bootstrapping_key.cuh:64-139, cuda_convert_lwe_bootstrap_key.           *)
(***************************************************************************)
SizeofDouble2 == 16

total_polynomials(input_lwe_dim, glwe_dim, l_gadget) ==
  ((input_lwe_dim * (glwe_dim + 1)) * (glwe_dim + 1)) * l_gadget

\* The size of the staging buffers in double2 elements, and in bytes.
buffer_elements(input_lwe_dim, glwe_dim, l_gadget, polynomial_size) ==
  (total_polynomials(input_lwe_dim, glwe_dim, l_gadget) * polynomial_size) \div 2

buffer_size(input_lwe_dim, glwe_dim, l_gadget, polynomial_size) ==
  buffer_elements(input_lwe_dim, glwe_dim, l_gadget, polynomial_size) * SizeofDouble2

\* The degrees the switch of the converter has a case for.
Degrees == {512, 1024, 2048, 4096, 8192}
\* Mutant: the transform is launched whatever the degree.
FFTLaunched_Always(polynomial_size) == TRUE

FFTLaunched(polynomial_size) == polynomial_size \in Degrees

(***************************************************************************)
(* The staging buffer d_bsk.  cudaMalloc is not checked: when it fails,    *)
(* d_bsk keeps the value it had, which is anything (null, or by chance the *)
(* address of a live buffer).                                              *)
(***************************************************************************)
StagingChoices(d, size) ==
  IF size <= freeMem[d]
    THEN {[ok |-> TRUE, p |-> p] : p \in {q \in FreeSlots : \A r \in FreeSlots : q <= r}}
    ELSE {[ok |-> FALSE, p |-> p] : p \in {NullPtr} \cup {q \in Ptrs : Live(q)}}

cuda_convert_lwe_bootstrap_key(dest, v_stream, gpu_index, input_lwe_dim, glwe_dim, l_gadget, polynomial_size) ==
  /\ ~aborted
  /\ UNCHANGED <<kernelVars, callers>>
  /\ Open(v_stream)
  /\ Live(dest)
  /\ heap[dest].size >= buffer_size(input_lwe_dim, glwe_dim, l_gadget, polynomial_size)
  /\ curDevice' = cudaSetDevice(curDevice, gpu_index)
  /\ LET d == curDevice'
         size == buffer_size(input_lwe_dim, glwe_dim, l_gadget, polynomial_size)
     IN \E st \in StagingChoices(d, size) :
          LET d_bsk == st.p
              \* cudaMalloc(&d_bsk, buffer_size)
              h1 == IF st.ok
                      THEN [heap EXCEPT ![d_bsk] = [dev |-> d, size |-> size, data |-> "uninit"]]
                      ELSE heap
              fm1 == IF st.ok THEN [freeMem EXCEPT ![d] = @ - size] ELSE freeMem
              \* cudaMemcpy(d_bsk, h_bsk, ...): a copy on the default stream, made
              \* after the work of the device and complete when it returns
              h2 == LET h == DrainHeap(h1, streams, d, 1)
                    IN IF d_bsk # NullPtr /\ h[d_bsk].size >= size
                         THEN [h EXCEPT ![d_bsk].data = "staged"] ELSE h
              s2 == DrainStreams(streams, d)
              \* the switch: a launch on *stream, which is refused (and the
              \* refusal ignored) when the stream belongs to another device
              launched == FFTLaunched(polynomial_size) /\ s2[v_stream].dev = d
              s3 == IF launched
                      THEN Enqueue(s2, v_stream, [op |-> "FFT", dst |-> dest, src |-> d_bsk])
                      ELSE s2
              calls == <<"cudaSetDevice", "cudaMalloc", "cudaMemcpy">>
                       \o (IF FFTLaunched(polynomial_size) THEN <<"batch_NSMFFT">> ELSE <<>>)
                       \o <<"cudaFree">>
          IN /\ heap' = IF cudaFreeOk(h2, d_bsk) THEN HeapAfterFree(h2, s3, d_bsk) ELSE h2
             /\ streams' = IF cudaFreeOk(h2, d_bsk) THEN StreamsAfterFree(h2, s3, d_bsk) ELSE s3
             /\ freeMem' = IF cudaFreeOk(h2, d_bsk) THEN FreeMemAfterFree(fm1, h2, d_bsk) ELSE fm1
             /\ last' = [op |-> "cuda_convert_lwe_bootstrap_key", gpu |-> gpu_index,
                         kind |-> "void", ret |-> 0, calls |-> calls,
                         size |-> polynomial_size, ptr |-> dest, stream |-> v_stream,
                         staged |-> st.ok]
  /\ UNCHANGED <<numGpus, aborted, SW>>

(***************************************************************************)
(* device.cu:501-608, host_bootstrap_amortized<Torus, params>.  The        *)
(* instantiation fixes sizeof(Torus) and params::opt; the caller gives the *)
(* batch size and the capacity it queried.  Byte counts that can pass 2^31 *)
(* are kept in units of ScratchUnit bytes: every footprint of a supported  *)
(* degree is a multiple of it, and a product of uint32_t, which wraps at   *)
(* 2^32 bytes, wraps at 2^32 / ScratchUnit units.                          *)
(***************************************************************************)
SizeofInt16 == 2
TorusWidths == {4, 8}
ScratchUnit == 2 ^ 9
NOSM == "NOSM"
PARTIALSM == "PARTIALSM"
FULLSM == "FULLSM"

SM_FULL(sizeof_Torus, polynomial_size) ==
    sizeof_Torus * polynomial_size + sizeof_Torus * polynomial_size
  + sizeof_Torus * polynomial_size + sizeof_Torus * polynomial_size
  + SizeofInt16 * polynomial_size + SizeofInt16 * polynomial_size
  + (SizeofDouble2 * polynomial_size) \div 2
  + (SizeofDouble2 * polynomial_size) \div 2
  + (SizeofDouble2 * polynomial_size) \div 2

SM_PART(polynomial_size) == (SizeofDouble2 * polynomial_size) \div 2

DM_PART(sizeof_Torus, polynomial_size) ==
  SM_FULL(sizeof_Torus, polynomial_size) - SM_PART(polynomial_size)

DM_FULL(sizeof_Torus, polynomial_size) == SM_FULL(sizeof_Torus, polynomial_size)

\* Mutant: a capacity equal to a footprint counts as too small.
sharedMemDegree_Inclusive(max_shared_memory, sm_part, sm_full) ==
  IF max_shared_memory <= sm_part THEN NOSM
  ELSE IF max_shared_memory <= sm_full THEN PARTIALSM
  ELSE FULLSM

\* if (max_shared_memory < SM_PART) ... else if (max_shared_memory < SM_FULL)
sharedMemDegree(max_shared_memory, sm_part, sm_full) ==
  IF max_shared_memory < sm_part THEN NOSM
  ELSE IF max_shared_memory < sm_full THEN PARTIALSM
  ELSE FULLSM

\* DM * input_lwe_ciphertext_count: int times uint32_t, a product of uint32_t.
ScratchRequest(dm, input_lwe_ciphertext_count) ==
  ((dm \div ScratchUnit) * input_lwe_ciphertext_count) % ((2 ^ 16 \div ScratchUnit) * 2 ^ 16)

\* The size given to cudaMalloc, in units, and the stride given to the kernel.
ScratchOf(tier, sizeof_Torus, polynomial_size, input_lwe_ciphertext_count) ==
  IF tier = NOSM
    THEN ScratchRequest(DM_FULL(sizeof_Torus, polynomial_size), input_lwe_ciphertext_count)
  ELSE IF tier = PARTIALSM
    THEN ScratchRequest(DM_PART(sizeof_Torus, polynomial_size), input_lwe_ciphertext_count)
  ELSE 0

StrideOf(tier, sizeof_Torus, polynomial_size) ==
  IF tier = NOSM THEN DM_FULL(sizeof_Torus, polynomial_size)
  ELSE IF tier = PARTIALSM THEN DM_PART(sizeof_Torus, polynomial_size)
  ELSE 0

SharedOf(tier, sizeof_Torus, polynomial_size) ==
  IF tier = NOSM THEN 0
  ELSE IF tier = PARTIALSM THEN SM_PART(polynomial_size)
  ELSE SM_FULL(sizeof_Torus, polynomial_size)

KernelOf(tier) == "device_bootstrap_amortized<" \o tier \o ">"

\* The runtime calls before the launch, tier by tier.
CallsBeforeLaunch(tier) ==
  IF tier = NOSM THEN <<"cudaMalloc">>
  ELSE <<"cudaFuncSetAttribute", "cudaFuncSetCacheConfig", "cudaMalloc">>

\* checkCudaErrors(cudaFuncSetAttribute(..., SM_FULL)) of the full tier: the
\* device refuses more dynamic shared memory than a block may opt in to.
FuncSetAttributeOk(tier, shared, d) ==
  tier # FULLSM \/ shared <= cudaGetDeviceProperties(d).sharedMemPerBlockOptin

host_bootstrap_amortized(v_stream, sizeof_Torus, params_opt, polynomial_size, input_lwe_ciphertext_count, max_shared_memory) ==
  /\ ~aborted
  /\ UNCHANGED <<kernelVars, callers>>
  /\ Open(v_stream)
  /\ Len(streams[v_stream].queue) < MaxPending
  /\ LET d == curDevice
         tier == sharedMemDegree(max_shared_memory, SM_PART(polynomial_size),
                                 SM_FULL(sizeof_Torus, polynomial_size))
         units == ScratchOf(tier, sizeof_Torus, polynomial_size, input_lwe_ciphertext_count)
         stride == StrideOf(tier, sizeof_Torus, polynomial_size)
         shared == SharedOf(tier, sizeof_Torus, polynomial_size)
         \* dim3 grid(input_lwe_ciphertext_count, 1, 1); dim3 thds(N / opt, 1, 1)
         grid == input_lwe_ciphertext_count
         thds == polynomial_size \div params_opt
         attrOk == FuncSetAttributeOk(tier, shared, d)
         fits == units <= freeMem[d] \div ScratchUnit
         rec == [op |-> "host_bootstrap_amortized", gpu |-> d, kind |-> "void", ret |-> 0,
                 calls |-> <<>>, size |-> polynomial_size, ptr |-> NullPtr,
                 stream |-> v_stream, torus |-> sizeof_Torus, opt |-> params_opt,
                 batch |-> input_lwe_ciphertext_count, capacity |-> max_shared_memory,
                 tier |-> tier, grid |-> grid, thds |-> thds, shared |-> shared,
                 scratch |-> units, stride |-> stride, enqueued |-> FALSE]
     IN IF ~attrOk
          THEN /\ last' = [rec EXCEPT !.kind = "exit", !.calls = <<"cudaFuncSetAttribute">>]
               /\ aborted' = TRUE
               /\ UNCHANGED <<heap, freeMem, streams>>
        ELSE IF ~fits
          THEN /\ last' = [rec EXCEPT !.kind = "exit", !.calls = CallsBeforeLaunch(tier)]
               /\ aborted' = TRUE
               /\ UNCHANGED <<heap, freeMem, streams>>
        ELSE /\ units > 0 => FreeSlots # {}
             /\ LET d_mem == IF units = 0 THEN NullPtr
                             ELSE CHOOSE q \in FreeSlots : \A r \in FreeSlots : q <= r
                    size == units * ScratchUnit
                    h1 == IF d_mem = NullPtr THEN heap
                          ELSE [heap EXCEPT ![d_mem] = [dev |-> d, size |-> size, data |-> "uninit"]]
                    fm1 == [freeMem EXCEPT ![d] = @ - size]
                    \* <<<grid, thds, shared, *stream>>>: refused, and the refusal
                    \* not looked at, when the stream belongs to another device
                    enqueued == streams[v_stream].dev = d
                    s1 == IF enqueued
                            THEN Enqueue(streams, v_stream,
                                         [op |-> "PBS", dst |-> d_mem, src |-> NullPtr])
                            ELSE streams
                    \* cudaStreamSynchronize(*stream)
                    h2 == ApplyQueue(h1, s1[v_stream].queue)
                    s2 == [s1 EXCEPT ![v_stream].queue = <<>>]
                IN /\ heap' = IF cudaFreeOk(h2, d_mem) THEN HeapAfterFree(h2, s2, d_mem) ELSE h2
                   /\ streams' = IF cudaFreeOk(h2, d_mem) THEN StreamsAfterFree(h2, s2, d_mem) ELSE s2
                   /\ freeMem' = IF cudaFreeOk(h2, d_mem) THEN FreeMemAfterFree(fm1, h2, d_mem) ELSE fm1
                   /\ last' = [rec EXCEPT !.ptr = d_mem, !.enqueued = enqueued,
                                 !.calls = CallsBeforeLaunch(tier)
                                           \o <<KernelOf(tier), "cudaStreamSynchronize", "cudaFree">>]
                   /\ UNCHANGED aborted
  /\ UNCHANGED <<numGpus, curDevice, SW>>

(***************************************************************************)
(* device.cu:188-499, device_bootstrap_amortized<Torus, params, SMD>: one  *)
(* execution unit (thread block) of a launch, followed polynomial by       *)
(* polynomial.  A running sum is the sequence of the products added to it  *)
(* since it was zeroed; a product is the digit multiplied and the offset   *)
(* of the key block it was multiplied by.                                  *)
(***************************************************************************)
NoDigit == [part |-> "none", iteration |-> 0, level |-> 0]
NoLoop == [line |-> 0, degree |-> 0, opt |-> 0, tid |-> 0, touched |-> {}, twice |-> 0]
NoTestVector == [lut |-> -1, b_hat |-> -1]
Garbage == [from |-> NoTestVector, rotations |-> <<>>, folded |-> <<>>, defined |-> FALSE]
NoOutput == [lo |-> 0, hi |-> -1, value |-> Garbage]

(***************************************************************************)
(* device.cu:233-264: the scratch memory of a unit and the nine buffers    *)
(* carved from it by pointer arithmetic.  Addresses are byte offsets in an *)
(* address space: "global" is device_mem, "shared" is sharedmem.           *)
(***************************************************************************)
\* Lines 236-239.
selected_memory(SMD, blockIdx, device_memory_size_per_sample) ==
  IF SMD = FULLSM THEN [space |-> "shared", at |-> 0]
  ELSE [space |-> "global", at |-> blockIdx * device_memory_size_per_sample]

\* ptr + count, with elements of elem bytes.
PtrAdd(ptr, count, elem) == [ptr EXCEPT !.at = @ + count * elem]

\* Mutant: the relay buffer of the partial tier carved like in the other tiers.
accumulator_fft_at_AfterBody(SMD, body_res_fft_at, polynomial_size) ==
  PtrAdd(body_res_fft_at, polynomial_size \div 2, SizeofDouble2)

\* Lines 261-264.
accumulator_fft_at(SMD, body_res_fft_at, polynomial_size) ==
  IF SMD # PARTIALSM THEN PtrAdd(body_res_fft_at, polynomial_size \div 2, SizeofDouble2)
  ELSE [space |-> "shared", at |-> 0]

\* Lines 245-264: where each buffer starts.
Carve(sizeof_Torus, polynomial_size, SMD, mem) ==
  LET mask_decomposed == mem
      body_decomposed == PtrAdd(mask_decomposed, polynomial_size, SizeofInt16)
      mask == PtrAdd(body_decomposed,
                     polynomial_size \div (sizeof_Torus \div SizeofInt16), sizeof_Torus)
      body == PtrAdd(mask, polynomial_size, sizeof_Torus)
      mask_rotated == PtrAdd(body, polynomial_size, sizeof_Torus)
      body_rotated == PtrAdd(mask_rotated, polynomial_size, sizeof_Torus)
      mask_res == PtrAdd(body_rotated,
                         polynomial_size \div (SizeofDouble2 \div sizeof_Torus), SizeofDouble2)
      body_res == PtrAdd(mask_res, polynomial_size \div 2, SizeofDouble2)
  IN [accumulator_mask_decomposed |-> mask_decomposed,
      accumulator_body_decomposed |-> body_decomposed,
      accumulator_mask |-> mask,
      accumulator_body |-> body,
      accumulator_mask_rotated |-> mask_rotated,
      accumulator_body_rotated |-> body_rotated,
      mask_res_fft |-> mask_res,
      body_res_fft |-> body_res,
      accumulator_fft |-> accumulator_fft_at(SMD, body_res, polynomial_size)]

\* The bytes of each buffer: polynomial_size elements of 16 bits or of a Torus,
\* polynomial_size / 2 elements of a double2 (the bounds of the loops of lines
\* 352-358 and 457-460).
BufferBytes(sizeof_Torus, polynomial_size) ==
  [accumulator_mask_decomposed |-> polynomial_size * SizeofInt16,
   accumulator_body_decomposed |-> polynomial_size * SizeofInt16,
   accumulator_mask |-> polynomial_size * sizeof_Torus,
   accumulator_body |-> polynomial_size * sizeof_Torus,
   accumulator_mask_rotated |-> polynomial_size * sizeof_Torus,
   accumulator_body_rotated |-> polynomial_size * sizeof_Torus,
   mask_res_fft |-> (polynomial_size \div 2) * SizeofDouble2,
   body_res_fft |-> (polynomial_size \div 2) * SizeofDouble2,
   accumulator_fft |-> (polynomial_size \div 2) * SizeofDouble2]

ScratchBuffers == DOMAIN BufferBytes(4, 512)

\* The buffers of the running unit: [space, lo, hi), hi excluded.
BuffersOf(a) ==
  LET at == Carve(a.sizeof_Torus, a.polynomial_size, a.SMD,
                  selected_memory(a.SMD, a.blockIdx, a.device_memory_size_per_sample))
      bytes == BufferBytes(a.sizeof_Torus, a.polynomial_size)
  IN [b \in ScratchBuffers |-> [space |-> at[b].space, lo |-> at[b].at, hi |-> at[b].at + bytes[b]]]

\* The unit's part of device_mem is past the end of what the host allocated
\* (device_mem counted in units of ScratchUnit bytes): the accesses of the unit
\* are out of bounds.
OutOfBounds(a) ==
  /\ a.SMD # FULLSM
  /\ (a.blockIdx + 1) * (a.device_memory_size_per_sample \div ScratchUnit) > a.device_mem
Digit(part, i, level) == [part |-> part, iteration |-> i, level |-> level]
Product(digit, offset) == [digit |-> digit, key |-> offset]

UnitIdle ==
  /\ kargs = [lwe_mask_size |-> 0, l_gadget |-> 0, polynomial_size |-> 0,
              SMD |-> "none", blockIdx |-> 0, lwe_idx |-> 0, sizeof_Torus |-> 0,
              gridDim |-> 0, device_mem |-> 0, device_memory_size_per_sample |-> 0]
  /\ pc = "idle"
  /\ iteration = 0
  /\ decomp_level = 0
  /\ accumulator = <<>>
  /\ accumulator_fft = NoDigit
  /\ mask_res_fft = <<>>
  /\ body_res_fft = <<>>
  /\ bsk_reads = EmptyBag
  /\ bsk_writes = {}
  /\ lwe_in = <<>>
  /\ lut_vector_indexes = <<>>
  /\ lwe_reads = {}
  /\ test_vector = NoTestVector
  /\ rotations = <<>>
  /\ lwe_out = NoOutput
  /\ barriers = <<>>
  /\ written = {}
  /\ unfenced = {}

KernelIdle == UnitIdle /\ strided = NoLoop

\* The four key blocks of one pass of the decomposition loop (lines 392-399
\* and 423-428): the GLWE dimension is the literal 1.
bsk_mask_slice(i, level, polynomial_size, l_gadget) ==
  get_ith_mask_kth_block(i, 0, level, polynomial_size, 1, l_gadget)

bsk_body_slice(i, level, polynomial_size, l_gadget) ==
  get_ith_body_kth_block(i, 0, level, polynomial_size, 1, l_gadget)

\* Mutant: the body digit is multiplied by the mask block of k = 0 again.
bsk_mask_slice_2_FirstBlock(i, level, polynomial_size, l_gadget) ==
  get_ith_mask_kth_block(i, 0, level, polynomial_size, 1, l_gadget)

bsk_mask_slice_2(i, level, polynomial_size, l_gadget) ==
  get_ith_mask_kth_block(i, 1, level, polynomial_size, 1, l_gadget)

bsk_body_slice_2(i, level, polynomial_size, l_gadget) ==
  get_ith_body_kth_block(i, 1, level, polynomial_size, 1, l_gadget)

ReadBlocks(reads, o1, o2) == (reads (+) SetToBag({o1})) (+) SetToBag({o2})

(***************************************************************************)
(* The statements of the kernel, in program order.  A statement is either  *)
(* synchronize_threads_in_block() or a phase: a call, or a strided loop,   *)
(* that reads and writes scratch buffers.  Both are named by their line in *)
(* device.cu; the buffers are named as the kernel names them.              *)
(***************************************************************************)
Sync(line) == [sync |-> TRUE, line |-> line, reads |-> {}, writes |-> {}]
Phase(line, reads, writes) == [sync |-> FALSE, line |-> line, reads |-> reads, writes |-> writes]

\* Lines 295-301: divide_by_monomial_negacyclic_inplace fills the accumulators
\* from the test vector, which is in global memory.
StepsOfBegin ==
  << Phase(295, {}, {"accumulator_mask"}),
     Phase(299, {}, {"accumulator_body"}) >>

\* Lines 309-358.
StepsOfRotate ==
  << Sync(309),
     Phase(329, {"accumulator_mask"}, {"accumulator_mask_rotated"}),
     Phase(333, {"accumulator_body"}, {"accumulator_body_rotated"}),
     Sync(337),
     Phase(341, {"accumulator_mask_rotated"}, {"accumulator_mask_rotated"}),
     Phase(345, {"accumulator_body_rotated"}, {"accumulator_body_rotated"}),
     Phase(351, {}, {"mask_res_fft", "body_res_fft"}) >>

\* Lines 366-410.
StepsOfMaskDigit ==
  << Phase(366, {"accumulator_mask_rotated"}, {"accumulator_mask_decomposed"}),
     Phase(369, {"accumulator_body_rotated"}, {"accumulator_body_decomposed"}),
     Sync(372),
     Phase(378, {"accumulator_mask_decomposed"}, {"accumulator_fft"}),
     Sync(381),
     Phase(383, {"accumulator_fft"}, {"accumulator_fft"}),
     Sync(384),
     Phase(386, {"accumulator_fft"}, {"accumulator_fft"}),
     Sync(401),
     Phase(405, {"accumulator_fft", "mask_res_fft"}, {"mask_res_fft"}),
     Phase(407, {"accumulator_fft", "body_res_fft"}, {"body_res_fft"}),
     Sync(410) >>

\* Lines 414-435.
StepsOfBodyDigit ==
  << Phase(414, {"accumulator_body_decomposed"}, {"accumulator_fft"}),
     Sync(416),
     Phase(418, {"accumulator_fft"}, {"accumulator_fft"}),
     Sync(419),
     Phase(421, {"accumulator_fft"}, {"accumulator_fft"}),
     Sync(430),
     Phase(432, {"accumulator_fft", "mask_res_fft"}, {"mask_res_fft"}),
     Phase(434, {"accumulator_fft", "body_res_fft"}, {"body_res_fft"}) >>

\* Mutant: the partial tier without its barrier of line 461.
StepsOfInverse_NoSyncAfterRelay(SMD) ==
  IF SMD = PARTIALSM
    THEN << Phase(458, {"mask_res_fft"}, {"accumulator_fft"}),
            Phase(463, {"accumulator_fft"}, {"accumulator_fft"}),
            Sync(464),
            Phase(466, {"accumulator_fft"}, {"accumulator_fft"}),
            Sync(467),
            Phase(469, {"accumulator_fft", "accumulator_mask"}, {"accumulator_mask"}),
            Sync(470),
            Phase(475, {"body_res_fft"}, {"accumulator_fft"}),
            Sync(478),
            Phase(480, {"accumulator_fft"}, {"accumulator_fft"}),
            Sync(481),
            Phase(483, {"accumulator_fft"}, {"accumulator_fft"}),
            Sync(484),
            Phase(486, {"accumulator_fft", "accumulator_body"}, {"accumulator_body"}),
            Sync(487) >>
    ELSE << Sync(440),
            Phase(442, {"mask_res_fft"}, {"mask_res_fft"}),
            Phase(443, {"body_res_fft"}, {"body_res_fft"}),
            Sync(444),
            Phase(446, {"mask_res_fft"}, {"mask_res_fft"}),
            Phase(447, {"body_res_fft"}, {"body_res_fft"}),
            Sync(449),
            Phase(451, {"mask_res_fft", "accumulator_mask"}, {"accumulator_mask"}),
            Phase(452, {"body_res_fft", "accumulator_body"}, {"accumulator_body"}),
            Sync(453) >>

\* Lines 439-488: if constexpr (SMD == FULLSM || SMD == NOSM) ... else ...
StepsOfInverse(SMD) ==
  IF SMD = PARTIALSM
    THEN << Phase(458, {"mask_res_fft"}, {"accumulator_fft"}),
            Sync(461),
            Phase(463, {"accumulator_fft"}, {"accumulator_fft"}),
            Sync(464),
            Phase(466, {"accumulator_fft"}, {"accumulator_fft"}),
            Sync(467),
            Phase(469, {"accumulator_fft", "accumulator_mask"}, {"accumulator_mask"}),
            Sync(470),
            Phase(475, {"body_res_fft"}, {"accumulator_fft"}),
            Sync(478),
            Phase(480, {"accumulator_fft"}, {"accumulator_fft"}),
            Sync(481),
            Phase(483, {"accumulator_fft"}, {"accumulator_fft"}),
            Sync(484),
            Phase(486, {"accumulator_fft", "accumulator_body"}, {"accumulator_body"}),
            Sync(487) >>
    ELSE << Sync(440),
            Phase(442, {"mask_res_fft"}, {"mask_res_fft"}),
            Phase(443, {"body_res_fft"}, {"body_res_fft"}),
            Sync(444),
            Phase(446, {"mask_res_fft"}, {"mask_res_fft"}),
            Phase(447, {"body_res_fft"}, {"body_res_fft"}),
            Sync(449),
            Phase(451, {"mask_res_fft", "accumulator_mask"}, {"accumulator_mask"}),
            Phase(452, {"body_res_fft", "accumulator_body"}, {"accumulator_body"}),
            Sync(453) >>

\* Lines 497-498.
StepsOfExtract ==
  << Phase(497, {"accumulator_mask"}, {}),
     Phase(498, {"accumulator_body"}, {}) >>

\* The barriers among the statements, in order.
SyncLines(steps) ==
  LET syncs == SelectSeq(steps, LAMBDA s : s.sync)
  IN [k \in 1..Len(syncs) |-> syncs[k].line]

\* What a thread block's memory looks like after the statements: w is the set
\* of the writes no barrier has followed yet, u the set of the (writer, reader,
\* buffer) triples where a phase read a buffer that an earlier phase wrote with
\* no barrier between the two.
RECURSIVE RunSteps(_, _, _, _)
RunSteps(steps, k, w, u) ==
  IF k > Len(steps) THEN [written |-> w, unfenced |-> u]
  ELSE LET s == steps[k]
       IN IF s.sync THEN RunSteps(steps, k + 1, {}, u)
          ELSE RunSteps(steps, k + 1,
                        {x \in w : x.buf \notin s.writes}
                          \cup {[buf |-> b, line |-> s.line] : b \in s.writes},
                        u \cup {<<x.line, s.line, x.buf>> :
                                  x \in {y \in w : y.buf \in s.reads /\ y.line # s.line}})

\* The statements are run by every thread of the block: no condition of the
\* kernel reads threadIdx, so the barriers passed are those of each thread.
Run(steps) ==
  LET r == RunSteps(steps, 1, written, unfenced)
  IN /\ barriers' = barriers \o SyncLines(steps)
     /\ written' = r.written
     /\ unfenced' = r.unfenced

\* Mutant: the optimisation that lines 318-325 forbid, as if `continue` were
\* not commented out.
SkipsIteration_Continue(a_hat) == a_hat = 0

\* Lines 317-326: the body of if (a_hat == 0) is empty.
SkipsIteration(a_hat) == FALSE

\* Line 281: block_lwe_in = &lwe_in[blockIdx.x * (lwe_mask_size + 1)].
block_lwe_in(blockIdx, lwe_mask_size) == blockIdx * (lwe_mask_size + 1)

\* Lines 282-283: the look-up table the unit selects.
block_lut_vector(indexes, lwe_idx, blockIdx) == indexes[lwe_idx + blockIdx]

\* Line 491: block_lwe_out = &lwe_out[blockIdx.x * (polynomial_size + 1)].
block_lwe_out(blockIdx, polynomial_size) == blockIdx * (polynomial_size + 1)

\* Lines 281-301: the accumulators are set from the test vector.
\* Out of bounds, the first access to the scratch memory either faults, which
\* ends the kernel, or lands in memory the launch does not own.
KernelBegin ==
  /\ pc = "begin"
  /\ pc' \in (IF OutOfBounds(kargs) THEN {"loop", "fault"} ELSE {"loop"})
  /\ iteration' = 0
  /\ accumulator' = <<>>
  /\ LET body == block_lwe_in(kargs.blockIdx, kargs.lwe_mask_size) + kargs.lwe_mask_size
     IN /\ lwe_reads' = lwe_reads \cup {body}
        /\ test_vector' = [lut |-> block_lut_vector(lut_vector_indexes, kargs.lwe_idx,
                                                    kargs.blockIdx),
                           b_hat |-> lwe_in[body]]
  /\ Run(StepsOfBegin)
  /\ UNCHANGED <<kargs, decomp_level, accumulator_fft, mask_res_fft, body_res_fft,
                 bsk_reads, bsk_writes, strided, lwe_in, lut_vector_indexes, rotations, lwe_out>>
  /\ UNCHANGED rmVars

\* Lines 307-358: the head of an iteration.  The accumulators are rotated and
\* rounded, and the two running sums are zeroed.
KernelRotate ==
  /\ pc = "loop"
  /\ iteration < kargs.lwe_mask_size
  /\ LET at == block_lwe_in(kargs.blockIdx, kargs.lwe_mask_size) + iteration
         a_hat == lwe_in[at]
     IN /\ lwe_reads' = lwe_reads \cup {at}
        /\ IF SkipsIteration(a_hat)
             THEN /\ Run(<<Sync(309)>>)
                  /\ iteration' = iteration + 1
                  /\ pc' = "loop"
                  /\ UNCHANGED <<mask_res_fft, body_res_fft, decomp_level, rotations>>
             ELSE /\ Run(StepsOfRotate)
                  /\ rotations' = Append(rotations, a_hat)
                  /\ mask_res_fft' = <<>>
                  /\ body_res_fft' = <<>>
                  /\ decomp_level' = 0
                  /\ pc' = "level"
                  /\ UNCHANGED iteration
  /\ UNCHANGED <<kargs, accumulator, accumulator_fft, bsk_reads, bsk_writes,
                 strided, lwe_in, lut_vector_indexes, test_vector, lwe_out>>
  /\ UNCHANGED rmVars

\* Lines 364-410: the mask digit of the level, its transform, and its products
\* with the two key blocks of k = 0.
KernelMaskDigit ==
  /\ pc = "level"
  /\ decomp_level < kargs.l_gadget
  /\ LET digit == Digit("mask", iteration, decomp_level)
         m == bsk_mask_slice(iteration, decomp_level, kargs.polynomial_size, kargs.l_gadget)
         b == bsk_body_slice(iteration, decomp_level, kargs.polynomial_size, kargs.l_gadget)
     IN /\ accumulator_fft' = digit
        /\ bsk_reads' = ReadBlocks(bsk_reads, m, b)
        /\ mask_res_fft' = Append(mask_res_fft, Product(digit, m))
        /\ body_res_fft' = Append(body_res_fft, Product(digit, b))
  /\ Run(StepsOfMaskDigit)
  /\ pc' = "body"
  /\ UNCHANGED <<kargs, iteration, decomp_level, accumulator, bsk_writes,
                 strided, lwe_in, lut_vector_indexes, lwe_reads, test_vector, rotations, lwe_out>>
  /\ UNCHANGED rmVars

\* Lines 412-436: the same for the body digit, with the key blocks of k = 1.
KernelBodyDigit ==
  /\ pc = "body"
  /\ LET digit == Digit("body", iteration, decomp_level)
         m == bsk_mask_slice_2(iteration, decomp_level, kargs.polynomial_size, kargs.l_gadget)
         b == bsk_body_slice_2(iteration, decomp_level, kargs.polynomial_size, kargs.l_gadget)
     IN /\ accumulator_fft' = digit
        /\ bsk_reads' = ReadBlocks(bsk_reads, m, b)
        /\ mask_res_fft' = Append(mask_res_fft, Product(digit, m))
        /\ body_res_fft' = Append(body_res_fft, Product(digit, b))
  /\ Run(StepsOfBodyDigit)
  /\ decomp_level' = decomp_level + 1
  /\ pc' = "level"
  /\ UNCHANGED <<kargs, iteration, accumulator, bsk_writes,
                 strided, lwe_in, lut_vector_indexes, lwe_reads, test_vector, rotations, lwe_out>>
  /\ UNCHANGED rmVars

\* Lines 438-489: back to coefficients; the sums are added to the accumulators.
\* The partial tier relays each sum through accumulator_fft, the mask sum first.
KernelInverse ==
  /\ pc = "level"
  /\ ~(decomp_level < kargs.l_gadget)
  /\ accumulator' = Append(accumulator, iteration)
  /\ accumulator_fft' = IF kargs.SMD = PARTIALSM THEN NoDigit ELSE accumulator_fft
  /\ Run(StepsOfInverse(kargs.SMD))
  /\ iteration' = iteration + 1
  /\ pc' = "loop"
  /\ UNCHANGED <<kargs, decomp_level, mask_res_fft, body_res_fft, bsk_reads, bsk_writes,
                 strided, lwe_in, lut_vector_indexes, lwe_reads, test_vector, rotations, lwe_out>>
  /\ UNCHANGED rmVars

\* Lines 491-498: the sample extraction, after the last iteration.  The output
\* ciphertext has polynomial_size mask elements and one body element.  What it
\* holds is undefined when the accumulators were out of bounds.
KernelExtract ==
  /\ pc = "loop"
  /\ ~(iteration < kargs.lwe_mask_size)
  /\ pc' = "done"
  /\ LET base == block_lwe_out(kargs.blockIdx, kargs.polynomial_size)
         result == [from |-> test_vector, rotations |-> rotations,
                    folded |-> accumulator, defined |-> TRUE]
     IN \E value \in (IF OutOfBounds(kargs) THEN {result, Garbage} ELSE {result}) :
          lwe_out' = [lo |-> base, hi |-> base + kargs.polynomial_size, value |-> value]
  /\ Run(StepsOfExtract)
  /\ UNCHANGED <<kargs, iteration, decomp_level, accumulator, accumulator_fft,
                 mask_res_fft, body_res_fft, bsk_reads, bsk_writes,
                 strided, lwe_in, lut_vector_indexes, lwe_reads, test_vector, rotations>>
  /\ UNCHANGED rmVars

(***************************************************************************)
(* device.cu:351-358 and 455-460 (the same at 472-477): the loops in which *)
(* each of the params::degree / params::opt threads of a unit goes over    *)
(* params::opt / 2 elements of a buffer of params::degree / 2 elements,    *)
(* params::degree / params::opt apart: the zeroing of the two running sums *)
(* and the relay copy of the partial tier.  The threads are followed one   *)
(* after the other; `touched` is the set of the indexes written so far and *)
(* `twice` counts the writes to an index that was written before.          *)
(***************************************************************************)
\* Mutant: the loop runs params::opt times, as the loops over coefficients do.
StridedIndexes_WholeDegree(threadIdx, degree, opt) ==
  {threadIdx + j * (degree \div opt) : j \in 0..(opt - 1)}

\* pos = threadIdx.x; for (j = 0; j < params::opt / 2; j++) { ...[pos]...;
\* pos += params::degree / params::opt; }
StridedIndexes(threadIdx, degree, opt) ==
  {threadIdx + j * (degree \div opt) : j \in 0..(opt \div 2 - 1)}

\* dim3 thds(polynomial_size / params::opt, 1, 1)
blockDim(polynomial_size, opt) == polynomial_size \div opt

StridedLoop ==
  /\ strided.line # 0
  /\ strided.tid < blockDim(strided.degree, strided.opt)
  /\ LET at == StridedIndexes(strided.tid, strided.degree, strided.opt)
     IN strided' = [strided EXCEPT !.tid = @ + 1,
                                   !.touched = @ \cup at,
                                   !.twice = @ + Cardinality(at \cap strided.touched)
                                               + (strided.opt \div 2 - Cardinality(at))]
  /\ UNCHANGED <<kargs, pc, iteration, decomp_level, accumulator, accumulator_fft,
                 mask_res_fft, body_res_fft, bsk_reads, bsk_writes,
                 lwe_in, lut_vector_indexes, lwe_reads, test_vector, rotations, lwe_out,
                 barriers, written, unfenced>>
  /\ UNCHANGED rmVars

(***************************************************************************)
(* The resource manager: one host thread calls the entry points of         *)
(* device.cu in any order, with valid and invalid arguments, while the     *)
(* devices work through their streams.                                     *)
(***************************************************************************)
vars == <<numGpus, curDevice, freeMem, heap, streams, last, aborted, SW, callers,
          kargs, pc, iteration, decomp_level, accumulator, accumulator_fft,
          mask_res_fft, body_res_fft, bsk_reads, bsk_writes,
          strided, lwe_in, lut_vector_indexes, lwe_reads, test_vector, rotations, lwe_out,
          barriers, written, unfenced>>

Init == InitRM /\ KernelIdle

Next ==
  \/ \E g \in GpuIndexes : cuda_create_stream(g)
  \/ \E s \in Handles, g \in GpuIndexes : cuda_destroy_stream(s, g)
  \/ \E sz \in Sizes, g \in GpuIndexes : cuda_malloc(sz, g) /\ UNCHANGED callers
  \/ \E sz \in Sizes, g \in GpuIndexes : cuda_check_valid_malloc(sz, g) /\ UNCHANGED callers
  \/ \E p \in PtrArgs, sz \in Sizes, s \in Handles, g \in GpuIndexes :
       cuda_memcpy_async_to_gpu(p, sz, s, g)
  \/ \E p \in PtrArgs, sz \in Sizes, s \in Handles, g \in GpuIndexes :
       cuda_memcpy_async_to_cpu(p, sz, s, g)
  \/ \E g \in GpuIndexes : cuda_synchronize_device(g)
  \/ \E p \in {NullPtr} \cup Ptrs, g \in GpuIndexes : cuda_drop(p, g)
  \/ \E g \in GpuIndexes : cuda_get_max_shared_memory(g)
  \/ \E s \in Handles : DeviceComplete(s)

Spec == Init /\ [][Next]_vars

(***************************************************************************)
(* Claims about the resource manager, checked under Spec.                  *)
(***************************************************************************)
CheckedEntryPoints ==
  {"cuda_check_valid_malloc", "cuda_memcpy_async_to_gpu", "cuda_memcpy_async_to_cpu",
   "cuda_synchronize_device", "cuda_drop", "cuda_get_max_shared_memory"}
UncheckedEntryPoints == {"cuda_create_stream", "cuda_destroy_stream", "cuda_malloc"}
CopyEntryPoints == {"cuda_memcpy_async_to_gpu", "cuda_memcpy_async_to_cpu"}

Returned(status) == last.kind = "status" /\ last.ret = status
CountOf(calls, name) == Cardinality({k \in 1..Len(calls) : calls[k] = name})
OnlyCountQuery(calls) == \A k \in 1..Len(calls) : calls[k] = "cudaGetDeviceCount"

\* C1 as stated: every entry point that takes a device index returns
\* InvalidDevice (-2) when the index is not below the device count, and makes
\* no device call (none but the query of the device count).
C1_EveryEntryPointRejects ==
  (last.op \in CheckedEntryPoints \cup UncheckedEntryPoints /\ last.gpu >= numGpus)
    => (Returned(InvalidDevice) /\ OnlyCountQuery(last.calls))

\* C1 amended: the six entry points that test the index (validate allocation,
\* the two copies when the size is not zero, synchronize, free, max shared
\* memory) return InvalidDevice for an index that is not below the device count
\* and call nothing but the device-count query; create stream, destroy stream
\* and allocate do not test the index and never return InvalidDevice.
C1_CheckedEntryPointsReject ==
  /\ (/\ last.op \in CheckedEntryPoints
      /\ last.gpu >= numGpus
      /\ (last.op \in CopyEntryPoints => last.size # 0))
       => (Returned(InvalidDevice) /\ OnlyCountQuery(last.calls))
  /\ (last.op \in UncheckedEntryPoints /\ last.gpu >= numGpus)
       => (~Returned(InvalidDevice) /\ ~OnlyCountQuery(last.calls))

C1_Witness ==
  /\ last.op = "cuda_synchronize_device"
  /\ last.gpu >= numGpus
  /\ Returned(InvalidDevice)
  /\ \E d \in Devices : Outstanding(d) # {}

\* C2 as stated: with a size that is not zero and a valid index, a copy returns
\* InvalidPointer (-1) and enqueues nothing as soon as the device recorded for
\* the pointer differs from gpu_index or its memory kind is not device memory.
C2_EitherMismatchRejects ==
  LET attr == cudaPointerGetAttributes(last.ptr)
  IN (/\ last.op \in CopyEntryPoints
      /\ last.size # 0
      /\ last.gpu < numGpus
      /\ (attr.device # last.gpu \/ attr.type # cudaMemoryTypeDevice))
       => (Returned(InvalidPointer) /\ CountOf(last.calls, "cudaMemcpyAsync") = 0)

\* C3: a copy of size 0 returns ZeroSizeCopy (-3) whatever the index and the
\* pointer and calls nothing; with another size an invalid index is reported
\* whatever the pointer; a copy returns 0 only after one cudaMemcpyAsync, which
\* appends exactly one copy to the given stream, and a copy that returns an
\* error leaves every stream as it was.
C3_State ==
  last.op \in CopyEntryPoints =>
    /\ last.size = 0 => (Returned(ZeroSizeCopy) /\ last.calls = <<>>)
    /\ (last.size # 0 /\ last.gpu >= numGpus) => Returned(InvalidDevice)
    /\ Returned(0) => CountOf(last.calls, "cudaMemcpyAsync") = 1
    /\ (last.kind = "status" /\ last.ret # 0) => CountOf(last.calls, "cudaMemcpyAsync") = 0

C3_Step ==
  (last' # last /\ last'.op \in CopyEntryPoints) =>
    IF last'.kind = "status" /\ last'.ret = 0
      THEN LET s == last'.stream
           IN /\ Len(streams'[s].queue) = Len(streams[s].queue) + 1
              /\ SubSeq(streams'[s].queue, 1, Len(streams[s].queue)) = streams[s].queue
              /\ streams'[s].queue[Len(streams'[s].queue)].op =
                   (IF last'.op = "cuda_memcpy_async_to_gpu" THEN "H2D" ELSE "D2H")
              /\ \A t \in Handles \ {s} : streams'[t] = streams[t]
      ELSE streams' = streams

\* C3: the size is tested first and a copy that returns 0 has enqueued exactly
\* one copy on its stream: C3_State in every state, C3_Step in every step.
C3_ZeroSizeFirstSingleEnqueue == []C3_State /\ [][C3_Step]_vars

C3_Witness ==
  /\ last.op \in CopyEntryPoints
  /\ last.size = 0
  /\ last.gpu >= numGpus
  /\ cudaPointerGetAttributes(last.ptr).type # cudaMemoryTypeDevice
  /\ Returned(ZeroSizeCopy)

\* C4: cuda_check_valid_malloc returns InvalidDevice iff the index is not below
\* the device count, whatever the size; otherwise OutOfMemory iff the size
\* exceeds the free memory of the device; otherwise 0, also when the size equals
\* the free memory.  It allocates nothing and leaves the free memory as it was.
C4_State ==
  last.op = "cuda_check_valid_malloc" =>
    /\ last.kind = "status"
    /\ last.ret = (IF last.gpu >= numGpus THEN InvalidDevice
                   ELSE IF last.size > freeMem[last.gpu] THEN OutOfMemory
                   ELSE 0)
    /\ CountOf(last.calls, "cudaMalloc") = 0

C4_Step ==
  (last' # last /\ last'.op = "cuda_check_valid_malloc") =>
    (freeMem' = freeMem /\ heap' = heap)

\* C4: the validation returns InvalidDevice, OutOfMemory or 0 as stated and
\* allocates nothing: C4_State in every state, C4_Step in every step.
C4_ValidationTriState == []C4_State /\ [][C4_Step]_vars

C4_Witness ==
  /\ last.op = "cuda_check_valid_malloc"
  /\ last.gpu < numGpus
  /\ last.size > 0
  /\ last.size = freeMem[last.gpu]
  /\ Returned(0)

\* C5: cuda_drop with an invalid index returns InvalidDevice and leaves the
\* buffer allocated and the selected device unchanged; cuda_synchronize_device
\* returns a status that is not zero only for an invalid index, and when it
\* has returned 0 no stream of that device holds outstanding work.
C5_State ==
  last.op = "cuda_synchronize_device" =>
    /\ last.kind = "status"
    /\ last.ret # 0 <=> last.gpu >= numGpus
    /\ last.ret = 0 => Outstanding(last.gpu) = {}

C5_Step ==
  (last' # last /\ last'.op = "cuda_drop" /\ last'.gpu >= numGpus) =>
    /\ last'.kind = "status" /\ last'.ret = InvalidDevice
    /\ heap' = heap /\ freeMem' = freeMem /\ curDevice' = curDevice

\* C5: a refused free changes nothing and a successful synchronize leaves no
\* outstanding work: C5_State in every state, C5_Step in every step.
C5_DropAndSynchronize == []C5_State /\ [][C5_Step]_vars

C5_Witness ==
  /\ last.op = "cuda_drop"
  /\ last.gpu >= numGpus
  /\ Returned(InvalidDevice)
  /\ Live(last.ptr)
  /\ curDevice # 0

(***************************************************************************)
(* The key side: the twiddle tables are built and keys are converted on a  *)
(* machine where the caller has a stream and allocates the destination of  *)
(* the key.  The converter is called for one GGSW of one level, with a     *)
(* degree the switch knows (512) and one it does not (256).                *)
(***************************************************************************)
KeyDegrees == {256, 512}

InitKey ==
  /\ InitRM
  /\ KernelIdle

NextKey ==
  \/ \E g \in GpuIndexes : cuda_create_stream(g)
  \/ \E sz \in Sizes, g \in Devices : cuda_malloc(sz, g) /\ UNCHANGED callers
  \/ \E p \in Ptrs, sz \in Sizes \ {0}, s \in Handles, g \in Devices :
       cuda_memcpy_async_to_gpu(p, sz, s, g)
  \/ \E N \in TwiddleDegrees, g \in GpuIndexes : cuda_initialize_twiddles(N, g)
  \/ \E dest \in Ptrs, s \in Handles, g \in GpuIndexes, N \in KeyDegrees :
       cuda_convert_lwe_bootstrap_key(dest, s, g, 1, 1, 1, N)
  \/ \E s \in Handles : DeviceComplete(s)

SpecKey == InitKey /\ [][NextKey]_vars

(***************************************************************************)
(* The launch: a caller with a stream starts bootstraps of every supported *)
(* degree and both torus widths, with batches of one, of two and of 2^17   *)
(* ciphertexts, and with capacities on each side of the two footprints and *)
(* the capacities the entry point reports for the devices of the model.    *)
(***************************************************************************)
BatchSizes == {1, 2, 2 ^ 17}
Opts == {4, 8}
Capacities(sizeof_Torus, polynomial_size) ==
  {0, SM_PART(polynomial_size) - 1, SM_PART(polynomial_size),
   SM_FULL(sizeof_Torus, polynomial_size) - 1, SM_FULL(sizeof_Torus, polynomial_size)}
  \cup {max_shared_memory_of(cudaGetDeviceProperties(d)) : d \in Devices}

InitLaunch ==
  /\ InitRM
  /\ KernelIdle

NextLaunch ==
  \/ \E g \in Devices : cuda_create_stream(g)
  \/ \E g \in Devices : cuda_malloc(TotalMem \div 2, g) /\ UNCHANGED callers
  \/ \E s \in Handles, t \in TorusWidths, o \in Opts, N \in Degrees, b \in BatchSizes :
       \E c \in Capacities(t, N) : host_bootstrap_amortized(s, t, o, N, b, c)

SpecLaunch == InitLaunch /\ [][NextLaunch]_vars

(***************************************************************************)
(* Claims about the launch, checked under SpecLaunch.                      *)
(***************************************************************************)
Kernels == {KernelOf(NOSM), KernelOf(PARTIALSM), KernelOf(FULLSM)}
KernelLaunches(calls) == Cardinality({k \in 1..Len(calls) : calls[k] \in Kernels})

\* The footprints as the specification gives them.
StatedPart(N) == 8 * N
StatedFull(width, N) == (4 * width + 28) * N
StatedTier(capacity, width, N) ==
  IF capacity >= StatedFull(width, N) THEN FULLSM
  ELSE IF capacity >= StatedPart(N) THEN PARTIALSM
  ELSE NOSM

\* C6: with SM_PART = 8*N and SM_FULL = (4*sizeof(Torus) + 28)*N bytes the
\* launch picks the full tier iff the capacity is at least SM_FULL, the partial
\* tier iff it is at least SM_PART and below SM_FULL, the tier without
\* residency iff it is below SM_PART: the tier is that function of the capacity,
\* the degree and the torus width.  A call that returns has launched exactly
\* one kernel, the one of that tier; a call the process ends in (a failed
\* allocation) has launched none.
C6_RichestTierThatFits ==
  last.op = "host_bootstrap_amortized" =>
    /\ last.tier = StatedTier(last.capacity, last.torus, last.size)
    /\ last.kind = "void" =>
         (KernelLaunches(last.calls) = 1 /\ CountOf(last.calls, KernelOf(last.tier)) = 1)
    /\ last.kind = "exit" => KernelLaunches(last.calls) = 0

C6_Witness ==
  /\ last.op = "host_bootstrap_amortized"
  /\ last.kind = "void"
  /\ last.enqueued
  /\ last.capacity = StatedPart(last.size)
  /\ last.tier = PARTIALSM

\* C7 as stated: the grid is the batch size and a block has N/opt threads; the
\* dynamic on-chip memory is 0 / SM_PART / SM_FULL by tier and never above the
\* capacity; the global scratch requested is batch*SM_FULL /
\* batch*(SM_FULL - SM_PART) / 0 bytes, and the stride given to the kernel is
\* the share of one sample in it.  (Scratch sizes are compared in units of
\* ScratchUnit bytes.)
StatedShare(tier, width, N) ==
  IF tier = NOSM THEN StatedFull(width, N)
  ELSE IF tier = PARTIALSM THEN StatedFull(width, N) - StatedPart(N)
  ELSE 0

C7_LaunchConfiguration ==
  (last.op = "host_bootstrap_amortized" /\ last.kind = "void") =>
    /\ last.grid = last.batch
    /\ last.thds = last.size \div last.opt
    /\ last.shared = (IF last.tier = NOSM THEN 0
                      ELSE IF last.tier = PARTIALSM THEN StatedPart(last.size)
                      ELSE StatedFull(last.torus, last.size))
    /\ last.shared <= last.capacity
    /\ last.scratch = last.batch * (StatedShare(last.tier, last.torus, last.size) \div ScratchUnit)
    /\ last.stride = StatedShare(last.tier, last.torus, last.size)

(***************************************************************************)
(* The kernel: one execution unit of a launch over a key of lwe_mask_size  *)
(* GGSW ciphertexts of l_gadget levels, for every supported degree and     *)
(* every tier.                                                             *)
(***************************************************************************)
\* The ciphertexts of the input batches: n mask elements and the body, each
\* named by its rescaling to [0, 2N) (lines 291-293 and 312-314); a mask
\* element of 0 gives the rotation amount a_hat = 0.
Ciphertexts(n) == {[i \in 0..n |-> 0], [i \in 0..n |-> (i + 1) % 2]}

LweBatch(n, c) == [e \in 0..(MaxBlocks * (n + 1) - 1) |-> c[e \div (n + 1)][e % (n + 1)]]

LweBatches(n) == {LweBatch(n, c) : c \in [0..(MaxBlocks - 1) -> Ciphertexts(n)]}

\* Two look-up tables, which alternate from one sample to the next.
LutIndexes == {[s \in 0..(2 * MaxBlocks - 1) |-> s % 2]}

\* Lines 557-601: the scratch memory and the stride the host gives the kernel.
LaunchArguments(a) ==
  [lwe_mask_size |-> a.lwe_mask_size, l_gadget |-> a.l_gadget,
   polynomial_size |-> a.polynomial_size, SMD |-> a.SMD, blockIdx |-> a.blockIdx,
   lwe_idx |-> a.lwe_idx, sizeof_Torus |-> a.sizeof_Torus, gridDim |-> a.gridDim,
   device_mem |-> ScratchOf(a.SMD, a.sizeof_Torus, a.polynomial_size, a.gridDim),
   device_memory_size_per_sample |-> StrideOf(a.SMD, a.sizeof_Torus, a.polynomial_size)]

InitKernel ==
  /\ InitRM
  /\ \E a \in [lwe_mask_size : 1..MaxLweDim, l_gadget : 1..MaxLevels,
                polynomial_size : Degrees, SMD : {NOSM, PARTIALSM, FULLSM},
                blockIdx : 0..(MaxBlocks - 1), lwe_idx : {0, MaxBlocks},
                sizeof_Torus : TorusWidths, gridDim : BatchSizes] :
       /\ a.blockIdx < a.gridDim
       /\ kargs = LaunchArguments(a)
  /\ pc = "begin"
  /\ iteration = 0
  /\ decomp_level = 0
  /\ accumulator = <<>>
  /\ accumulator_fft = NoDigit
  /\ mask_res_fft = <<>>
  /\ body_res_fft = <<>>
  /\ bsk_reads = EmptyBag
  /\ bsk_writes = {}
  /\ lwe_in \in LweBatches(kargs.lwe_mask_size)
  /\ lut_vector_indexes \in LutIndexes
  /\ lwe_reads = {}
  /\ test_vector = NoTestVector
  /\ rotations = <<>>
  /\ lwe_out = NoOutput
  /\ barriers = <<>>
  /\ written = {}
  /\ unfenced = {}
  /\ strided = NoLoop

NextKernel ==
  \/ KernelBegin
  \/ KernelRotate
  \/ KernelMaskDigit
  \/ KernelBodyDigit
  \/ KernelInverse
  \/ KernelExtract

SpecKernel == InitKernel /\ [][NextKernel]_vars

(***************************************************************************)
(* Claims about the key layout and the kernel, checked under SpecKernel.   *)
(***************************************************************************)
StatedOffset(i, level, k, part, N, l) == (4 * (i * l + level) + 2 * k + part) * (N \div 2)

\* The blocks of the key of the running kernel: (i, level, k, part), part 0
\* for the mask block and 1 for the body block.
KeyTuples ==
  (0..(kargs.lwe_mask_size - 1)) \X (0..(kargs.l_gadget - 1)) \X {0, 1} \X {0, 1}

BlockAt(t) ==
  IF t[4] = 0
    THEN get_ith_mask_kth_block(t[1], t[3], t[2], kargs.polynomial_size, 1, kargs.l_gadget)
    ELSE get_ith_body_kth_block(t[1], t[3], t[2], kargs.polynomial_size, 1, kargs.l_gadget)

StatedAt(t) == StatedOffset(t[1], t[2], t[3], t[4], kargs.polynomial_size, kargs.l_gadget)

\* C8: with GLWE dimension 1 the index functions give the block (i, level, k,
\* part) the offset (4*(i*l + level) + 2*k + part) * N/2; two different blocks
\* of N/2 elements never overlap (so the mapping is injective), every block
\* lies inside the n*l*2*2*N/2 elements of the key buffer the converter
\* allocates, and the blocks are the 4*n*l consecutive blocks of N/2 elements
\* that start at 0: no gap, nothing past the end.
C8_KeyLayout ==
  LET n == kargs.lwe_mask_size
      l == kargs.l_gadget
      N == kargs.polynomial_size
      half == N \div 2
      total == buffer_elements(n, 1, l, N)
  IN /\ \A t \in KeyTuples : BlockAt(t) = StatedAt(t)
     /\ \A t, u \in KeyTuples :
          t # u => (BlockAt(t) + half <= BlockAt(u) \/ BlockAt(u) + half <= BlockAt(t))
     /\ total = n * l * 2 * 2 * half
     /\ \A t \in KeyTuples : 0 <= BlockAt(t) /\ BlockAt(t) + half <= total
     /\ \A t \in KeyTuples : BlockAt(t) % half = 0
     /\ {BlockAt(t) \div half : t \in KeyTuples} = 0..(4 * n * l - 1)

C8_Witness ==
  /\ pc = "done"
  /\ kargs.lwe_mask_size = MaxLweDim
  /\ kargs.l_gadget = MaxLevels
  /\ kargs.polynomial_size = 8192
  /\ CopiesIn(buffer_elements(MaxLweDim, 1, MaxLevels, 8192) - 4096, bsk_reads) = 1

\* C10: in iteration i and level d the kernel reads four key blocks: the mask
\* digit is multiplied by the blocks (i, d, k=0, mask) and (i, d, k=0, body),
\* the body digit by (i, d, k=1, mask) and (i, d, k=1, body); the products with
\* a mask block go to the mask running sum, those with a body block to the body
\* running sum.  Both sums are zero when the levels of an iteration start and
\* hold 2*l products when they are folded into the accumulators.  No block is
\* read twice, at the end of the bootstrap each of the n*l*4 blocks has been
\* read once, and the key is never written.
C10_State ==
  LET l == kargs.l_gadget
  IN /\ (pc = "level" /\ decomp_level = 0) => (mask_res_fft = <<>> /\ body_res_fft = <<>>)
     /\ pc = "level" => BagCardinality(bsk_reads) = 4 * (iteration * l + decomp_level)
     /\ \A o \in BagToSet(bsk_reads) : CopiesIn(o, bsk_reads) = 1
     /\ pc = "done" =>
          /\ BagToSet(bsk_reads) = {StatedAt(t) : t \in KeyTuples}
          /\ BagCardinality(bsk_reads) = kargs.lwe_mask_size * l * 4
     /\ bsk_writes = {}

C10_Step ==
  LET N == kargs.polynomial_size
      l == kargs.l_gadget
      i == iteration
      d == decomp_level
      Added(part, k) ==
        /\ bsk_reads' = ReadBlocks(bsk_reads, StatedOffset(i, d, k, 0, N, l),
                                   StatedOffset(i, d, k, 1, N, l))
        /\ mask_res_fft' = Append(mask_res_fft,
                                  Product(Digit(part, i, d), StatedOffset(i, d, k, 0, N, l)))
        /\ body_res_fft' = Append(body_res_fft,
                                  Product(Digit(part, i, d), StatedOffset(i, d, k, 1, N, l)))
  IN /\ (pc = "level" /\ pc' = "body") => Added("mask", 0)
     /\ (pc = "body" /\ pc' = "level") => Added("body", 1)
     /\ (pc = "level" /\ pc' = "loop") =>
          (Len(mask_res_fft) = 2 * l /\ Len(body_res_fft) = 2 * l /\ bsk_reads' = bsk_reads)
     /\ (pc \notin {"level", "body"}) => bsk_reads' = bsk_reads

\* C10: four key blocks per iteration and level, each block read once, the key
\* never written: C10_State in every state, C10_Step in every step.
C10_FourBlocksPerLevel == []C10_State /\ [][C10_Step]_vars

C10_Witness ==
  /\ pc = "done"
  /\ kargs.lwe_mask_size = MaxLweDim
  /\ kargs.l_gadget = MaxLevels
  /\ BagCardinality(bsk_reads) = 4 * MaxLweDim * MaxLevels

(***************************************************************************)
(* Claims about the key converter, checked under SpecKey.                  *)
(***************************************************************************)
Converter == "cuda_convert_lwe_bootstrap_key"

C9_State ==
  (last.op = Converter /\ last.size \notin Degrees) =>
    /\ CountOf(last.calls, "batch_NSMFFT") = 0
    /\ last.kind = "void"
    /\ ~aborted

C9_Step ==
  (/\ last' # last
   /\ last'.op = Converter
   /\ last'.size \notin Degrees
   /\ last'.staged) =>
    LET dest == last'.ptr
        before == DrainHeap(heap, streams, curDevice', 1)
    IN /\ heap' = before
       /\ heap'[dest] # NoBuf
       /\ freeMem' = freeMem
       /\ streams' = DrainStreams(streams, curDevice')

BarriersPerIteration(l, SMD) == 2 + 8 * l + (IF SMD = PARTIALSM THEN 8 ELSE 4)

\* The rotation amounts of the unit's own ciphertext, in order.
OwnRotations ==
  [k \in 1..kargs.lwe_mask_size |->
     lwe_in[kargs.blockIdx * (kargs.lwe_mask_size + 1) + (k - 1)]]

C11_State ==
  LET n == kargs.lwe_mask_size
      period == BarriersPerIteration(kargs.l_gadget, kargs.SMD)
  IN /\ \A k \in 1..Len(barriers) : barriers[k] = barriers[((k - 1) % period) + 1]
     /\ pc = "done" =>
          /\ iteration = n
          /\ accumulator = [k \in 1..n |-> k - 1]
          /\ rotations = OwnRotations
          /\ Len(barriers) = n * period

C11_Step ==
  iteration' # iteration =>
    /\ iteration' = iteration + 1
    /\ Len(mask_res_fft) = 2 * kargs.l_gadget
    /\ Len(body_res_fft) = 2 * kargs.l_gadget
    /\ Len(barriers') = (iteration + 1) * BarriersPerIteration(kargs.l_gadget, kargs.SMD)

\* C11: a unit runs exactly n = lwe_mask_size iterations whatever its mask
\* elements are: an iteration whose rotation amount a_hat is 0 is not skipped,
\* it rotates, decomposes and accumulates over all the levels like any other.
\* The barriers every thread of the unit passes are the same sequence in every
\* iteration, so their number and their order depend on n, on the number of
\* levels and on the tier only, never on the ciphertext.
C11_EveryIterationRuns == []C11_State /\ [][C11_Step]_vars

C11_Witness ==
  /\ pc = "done"
  /\ kargs.lwe_mask_size = MaxLweDim
  /\ \E k \in 1..Len(rotations) : rotations[k] = 0
  /\ \E k \in 1..Len(rotations) : rotations[k] # 0
  /\ Len(barriers) = MaxLweDim * BarriersPerIteration(kargs.l_gadget, kargs.SMD)


UnfencedBoundaries(SMD) ==
  {<<341, 366, "accumulator_mask_rotated">>, <<345, 369, "accumulator_body_rotated">>}
    \cup (IF SMD = PARTIALSM THEN {<<432, 458, "mask_res_fft">>} ELSE {})

Units == 0..((IF kargs.gridDim < MaxBlocks THEN kargs.gridDim ELSE MaxBlocks) - 1)

RegionOf(b) ==
  [lo |-> b * kargs.device_memory_size_per_sample,
   hi |-> (b + 1) * kargs.device_memory_size_per_sample]

\* C13: in the partial- and no-residency tiers the unit b uses only the bytes
\* [b*stride, (b+1)*stride) of the global scratch memory, stride being the
\* per-sample size passed to the kernel; the regions of two units are
\* disjoint, and every region lies inside the buffer allocated for the batch.
C13_ScratchRegions ==
  (pc # "idle" /\ kargs.SMD # FULLSM) =>
    LET own == RegionOf(kargs.blockIdx)
        bufs == BuffersOf(kargs)
        stride == kargs.device_memory_size_per_sample
    IN /\ \A b \in ScratchBuffers :
            bufs[b].space = "global" => (own.lo <= bufs[b].lo /\ bufs[b].hi <= own.hi)
       /\ \A c \in Units \ {kargs.blockIdx} :
            RegionOf(c).hi <= own.lo \/ own.hi <= RegionOf(c).lo
       /\ \A c \in Units : (c + 1) * (stride \div ScratchUnit) <= kargs.device_mem
       /\ kargs.gridDim * (stride \div ScratchUnit) <= kargs.device_mem


(***************************************************************************)
(* Claims about the outputs of the units, checked under SpecKernel.        *)
(***************************************************************************)
\* The input ciphertext of unit b: elements 0..n-1 are the mask, n the body.
OwnCiphertext(b) ==
  [i \in 0..kargs.lwe_mask_size |-> lwe_in[b * (kargs.lwe_mask_size + 1) + i]]

\* The bootstrap of one ciphertext with one look-up table, for the key and the
\* gadget parameters of the launch: the test vector divided by X^b_hat, then
\* rotated by each mask element in turn.
BootstrapOf(ct, lut, n) ==
  [from |-> [lut |-> lut, b_hat |-> ct[n]],
   rotations |-> [k \in 1..n |-> ct[k - 1]],
   folded |-> [k \in 1..n |-> k - 1],
   defined |-> TRUE]

\* C14: the output of unit b is lwe_out[b*(N+1) .. b*(N+1)+N] and nothing
\* else; the unit reads its own ciphertext lwe_in[b*(n+1) .. b*(n+1)+n] only,
\* and what it writes is the bootstrap of that ciphertext with the look-up
\* table selected for it: the same whatever the other ciphertexts of the batch
\* are, and the same as in a batch of one.
C14_BatchIndependence ==
  LET b == kargs.blockIdx
      n == kargs.lwe_mask_size
      N == kargs.polynomial_size
  IN /\ lwe_reads \subseteq (b * (n + 1))..(b * (n + 1) + n)
     /\ pc \in {"done", "fault"} =>
          /\ lwe_out.lo = b * (N + 1)
          /\ lwe_out.hi = b * (N + 1) + N
          /\ lwe_out.value = BootstrapOf(OwnCiphertext(b), lut_vector_indexes[kargs.lwe_idx + b], n)


\* The products a running sum holds after the mask digits of the levels below
\* d, their body digits, and the digits of level d seen so far; part is 0 for
\* the mask running sum and 1 for the body running sum.
SumAfter(i, d, seen, part) ==
  LET N == kargs.polynomial_size
      l == kargs.l_gadget
      ProductAt(k) ==
        LET level == (k - 1) \div 2
            body == (k - 1) % 2
        IN Product(Digit(IF body = 0 THEN "mask" ELSE "body", i, level),
                   StatedOffset(i, level, body, part, N, l))
  IN [k \in 1..(2 * d + seen) |-> ProductAt(k)]

\* C15: for the same batch, key, look-up tables and parameters the kernels of
\* the three tiers do the same operations on the same logical buffers: at every
\* point of the loop the accumulators and the two running sums hold what the
\* iteration, the level and the inputs determine, whatever the tier (the tiers
\* differ in where the buffers are, and the partial tier in passing each sum
\* through the relay buffer), and the output ciphertext is the same in the
\* three tiers: the bootstrap of the unit's ciphertext.
C15_TierEquivalence ==
  LET b == kargs.blockIdx
      n == kargs.lwe_mask_size
  IN /\ pc \in {"loop", "level", "body", "done"} =>
          /\ accumulator = [k \in 1..iteration |-> k - 1]
          /\ rotations = [k \in 1..Len(rotations) |-> OwnCiphertext(b)[k - 1]]
     /\ pc = "level" =>
          /\ mask_res_fft = SumAfter(iteration, decomp_level, 0, 0)
          /\ body_res_fft = SumAfter(iteration, decomp_level, 0, 1)
     /\ pc = "body" =>
          /\ mask_res_fft = SumAfter(iteration, decomp_level, 1, 0)
          /\ body_res_fft = SumAfter(iteration, decomp_level, 1, 1)
     /\ pc \in {"done", "fault"} =>
          lwe_out.value = BootstrapOf(OwnCiphertext(b), lut_vector_indexes[kargs.lwe_idx + b], n)


(***************************************************************************)
(* The host calls that give work to a device: the two copies, the key      *)
(* converter and the bootstrap, with the explicit synchronization, on the  *)
(* devices that exist.                                                     *)
(***************************************************************************)
InitHost == InitRM /\ KernelIdle

NextHost ==
  \/ \E g \in Devices : cuda_create_stream(g)
  \/ \E g \in Devices : cuda_malloc(TotalMem \div 2, g) /\ UNCHANGED callers
  \/ \E p \in Ptrs, s \in Handles, g \in Devices :
       cuda_memcpy_async_to_gpu(p, TotalMem \div 2, s, g)
  \/ \E p \in Ptrs, s \in Handles, g \in Devices :
       cuda_memcpy_async_to_cpu(p, TotalMem \div 2, s, g)
  \/ \E g \in Devices : cuda_synchronize_device(g)
  \/ \E dest \in Ptrs, s \in Handles, g \in Devices, N \in KeyDegrees :
       cuda_convert_lwe_bootstrap_key(dest, s, g, 1, 1, 1, N)
  \/ \E s \in Handles, N \in KeyDegrees \cap Degrees :
       \E cap \in {0, SM_PART(N), SM_FULL(4, N)} : host_bootstrap_amortized(s, 4, 4, N, 1, cap)
  \/ \E s \in Handles : DeviceComplete(s)

SpecHost == InitHost /\ [][NextHost]_vars

(***************************************************************************)
(* Claims about the host calls, checked under SpecHost.                    *)
(***************************************************************************)
Bootstrap == "host_bootstrap_amortized"

\* The step is a call of `op` that returned.
Called(op) == last' # last /\ last'.op = op /\ last'.kind # "exit"

\* The work on the queue of stream s grows by one operation, which is still
\* there when the call returns.
LeftPending(s) ==
  /\ Len(streams'[s].queue) = Len(streams[s].queue) + 1
  /\ SubSeq(streams'[s].queue, 1, Len(streams[s].queue)) = streams[s].queue

\* C16 as stated: a host call that gives work to a device (either copy, the
\* bootstrap, the key conversion) returns while that work is still in its
\* stream, and only cuda_synchronize_device waits for a stream to empty.
C16_Stated ==
  /\ \A op \in CopyEntryPoints :
       (Called(op) /\ last'.ret = 0) => LeftPending(last'.stream)
  /\ (Called(Bootstrap) /\ last'.enqueued) => LeftPending(last'.stream)
  /\ (Called(Converter) /\ CountOf(last'.calls, "batch_NSMFFT") = 1
        /\ streams[last'.stream].dev = curDevice') => LeftPending(last'.stream)
  /\ (last' # last /\ \E s \in Handles : streams[s].queue # <<>> /\ streams'[s].queue = <<>>)
       => last'.op = "cuda_synchronize_device"

C16_Amended ==
  /\ \A op \in CopyEntryPoints :
       (Called(op) /\ last'.ret = 0) => (LeftPending(last'.stream) /\ heap' = heap)
  /\ Called(Bootstrap) =>
       /\ CountOf(last'.calls, "cudaStreamSynchronize") = 1
       /\ streams'[last'.stream].queue = <<>>
       /\ last'.enqueued =>
            LET q == streams[last'.stream].queue
            IN \A i \in 1..Len(q) :
                 (/\ q[i].dst \in Ptrs \ {last'.ptr}
                  /\ \A s \in Handles \ {last'.stream} :
                       \A j \in 1..Len(streams[s].queue) : streams[s].queue[j].dst # q[i].dst)
                   => heap'[q[i].dst] = ApplyQueue(heap, q)[q[i].dst]
  /\ (Called(Converter) /\ last'.staged) =>
       \A s \in Handles : streams'[s].dev = curDevice' => streams'[s].queue = <<>>
  /\ (last' # last /\ \E s \in Handles : streams[s].queue # <<>> /\ streams'[s].queue = <<>>)
       => last'.op \in {"cuda_synchronize_device", Bootstrap, Converter}

InitTwiddle == InitRM /\ KernelIdle

NextTwiddle ==
  \E N \in Degrees, g \in GpuIndexes : cuda_initialize_twiddles(N, g)

SpecTwiddle == InitTwiddle /\ [][NextTwiddle]_vars

(***************************************************************************)
(* Claims about the twiddle tables, checked under SpecTwiddle.             *)
(***************************************************************************)
Builder == "cuda_initialize_twiddles"

RECURSIVE Log2(_)
Log2(n) == IF n <= 1 THEN 0 ELSE 1 + Log2(n \div 2)

\* The value of the `bits` low bits of i, read in the opposite order.
RECURSIVE BitReverse(_, _)
BitReverse(i, bits) ==
  IF bits = 0 THEN 0
  ELSE (i % 2) * 2 ^ (bits - 1) + BitReverse(i \div 2, bits - 1)

\* The pairs of two tables of a degree N are those of a bit reversal.
IsBitReversalTable(SW1, SW2, N) ==
  LET half == N \div 2
      bits == Log2(half)
      Rev == [i \in 0..(half - 1) |-> BitReverse(i, bits)]
      cnt == Cardinality({k \in 1..half : SW1[k] # 0})
      firsts == {SW1[k] : k \in 1..cnt}
      seconds == {SW2[k] : k \in 1..cnt}
  IN /\ \A k \in 1..cnt : SW1[k] \in 1..(half - 1) /\ SW2[k] = Rev[SW1[k]] /\ SW1[k] < SW2[k]
     /\ firsts = {i \in 1..(half - 1) : Rev[i] > i}
     /\ Cardinality(firsts) = cnt
     /\ Cardinality(firsts \cup seconds) = 2 * cnt
     /\ \A k \in (cnt + 1)..half : SW1[k] = 0 /\ SW2[k] = 0
     /\ \A k \in 1..cnt : Rev[SW2[k]] = SW1[k]
     /\ \A i \in (0..(half - 1)) \ (firsts \cup seconds) : Rev[i] = i

\* C17: for every supported N the builder leaves cnt pairs (SW1[k], SW2[k])
\* at the head of the tables, SW2[k] being the reversal of SW1[k] on
\* log2(N/2) bits and greater than it; every index of [1, N/2) smaller than
\* its reversal is the first of exactly one pair and no index is in two
\* pairs; the entries from cnt to N/2 - 1 are 0; exchanging the two elements
\* of every pair is the bit-reversal permutation of N/2 elements (an index in
\* no pair is its own reversal).
C17_BitReversalPairs ==
  last.op = Builder =>
    LET half == last.size \div 2
    IN /\ Len(SW[curDevice].SW1) >= half
       /\ Len(SW[curDevice].SW2) >= half
       /\ IsBitReversalTable(SubSeq(SW[curDevice].SW1, 1, half),
                             SubSeq(SW[curDevice].SW2, 1, half), last.size)

C17_Witness ==
  /\ last.op = Builder
  /\ last.size = 8192
  /\ SW[curDevice].SW1[2016] = 4031
  /\ SW[curDevice].SW2[2016] = 4063
  /\ SW[curDevice].SW1[2017] = 0

C18_State ==
  last.op = Builder =>
    LET half == last.size \div 2
    IN /\ SubSeq(SW[curDevice].SW1, 1, half) = TwiddleTables(last.size).SW1
       /\ SubSeq(SW[curDevice].SW2, 1, half) = TwiddleTables(last.size).SW2

C18_Step ==
  (last.op = Builder /\ last'.op = Builder /\ last'.size = last.size /\ curDevice' = curDevice)
    => SW' = SW

\* C18: after any sequence of calls of the builder, the first N/2 entries of
\* SW1 and of SW2 on the device are those of the degree N of the last call,
\* whatever the calls before it were; a call with the degree of the call
\* before it leaves the tables as they are.
C18_TwiddlesIdempotent == []C18_State /\ [][C18_Step]_vars

C18_Witness ==
  /\ last.op = Builder
  /\ last.size = 512
  /\ Len(SW[curDevice].SW1) = 4096
  /\ SW[curDevice].SW1[257] # 0
  /\ SW[curDevice].SW1[256] = 0


(***************************************************************************)
(* The strided loops of a unit, for every supported degree and the values  *)
(* of params::opt the model launches with: the zeroing (line 351) and the  *)
(* relay copy (line 455).                                                  *)
(***************************************************************************)
InitStride ==
  /\ InitRM
  /\ UnitIdle
  /\ strided \in {[line |-> ln, degree |-> N, opt |-> o, tid |-> 0, touched |-> {}, twice |-> 0] :
                    ln \in {351, 455}, N \in Degrees, o \in Opts}

NextStride == StridedLoop

SpecStride == InitStride /\ [][NextStride]_vars

\* C19: in a unit of N/opt threads the index sets {tid + j*(N/opt) : 0 <= j <
\* opt/2} of two threads are disjoint and their union is [0, N/2): the zeroing
\* of the running sums and the relay copy of the partial tier write no element
\* twice, none outside the N/2 elements of the buffer and, once every thread
\* has run, each of them.
C19_StridedCover ==
  strided.line # 0 =>
    LET half == strided.degree \div 2
    IN /\ strided.touched \subseteq 0..(half - 1)
       /\ strided.twice = 0
       /\ Cardinality(strided.touched) = strided.tid * (strided.opt \div 2)
       /\ strided.tid = blockDim(strided.degree, strided.opt) => strided.touched = 0..(half - 1)

C19_Witness ==
  /\ strided.line = 455
  /\ strided.degree = 512
  /\ strided.opt = 8
  /\ strided.tid = blockDim(512, 8)
  /\ strided.touched = 0..255


(***************************************************************************)
(* Claim about the carving of the scratch memory, checked under SpecKernel.*)
(***************************************************************************)
ComplexBuffers == {"mask_res_fft", "body_res_fft", "accumulator_fft"}

RECURSIVE SumOfBytes(_, _)
SumOfBytes(bufs, names) ==
  IF names = {} THEN 0
  ELSE LET x == CHOOSE y \in names : TRUE
       IN (bufs[x].hi - bufs[x].lo) + SumOfBytes(bufs, names \ {x})

\* The buffers of `names` fill [lo, lo + bytes) of one address space, with no
\* gap and nothing past the end.
FitExactly(bufs, names, space, lo, bytes) ==
  /\ \A x \in names : bufs[x].space = space /\ lo <= bufs[x].lo /\ bufs[x].hi <= lo + bytes
  /\ SumOfBytes(bufs, names) = bytes

\* C20: for both widths of the torus and every supported N the nine buffers
\* carved from the scratch memory are pairwise disjoint and the three complex
\* buffers start at a multiple of 16 bytes from the start of their memory; in
\* the full- and no-residency tiers the nine fill exactly SM_FULL bytes from
\* the start of the unit's memory; in the partial tier the eight off-chip
\* buffers fill exactly SM_FULL - SM_PART bytes and the relay buffer exactly
\* the SM_PART bytes of on-chip memory.
C20_NineBuffers ==
  pc # "idle" =>
    LET bufs == BuffersOf(kargs)
        mem == selected_memory(kargs.SMD, kargs.blockIdx, kargs.device_memory_size_per_sample)
        full == SM_FULL(kargs.sizeof_Torus, kargs.polynomial_size)
        part == SM_PART(kargs.polynomial_size)
    IN /\ \A x, y \in ScratchBuffers :
            x # y => \/ bufs[x].space # bufs[y].space
                     \/ bufs[x].hi <= bufs[y].lo
                     \/ bufs[y].hi <= bufs[x].lo
       /\ \A x \in ScratchBuffers : bufs[x].lo < bufs[x].hi
       /\ \A x \in ComplexBuffers :
            (bufs[x].lo - (IF bufs[x].space = mem.space THEN mem.at ELSE 0)) % SizeofDouble2 = 0
       /\ IF kargs.SMD = PARTIALSM
            THEN /\ FitExactly(bufs, ScratchBuffers \ {"accumulator_fft"}, "global",
                               mem.at, full - part)
                 /\ FitExactly(bufs, {"accumulator_fft"}, "shared", 0, part)
            ELSE FitExactly(bufs, ScratchBuffers, mem.space, mem.at, full)

C20_Witness ==
  /\ pc = "done"
  /\ kargs.SMD = PARTIALSM
  /\ kargs.sizeof_Torus = 8
  /\ kargs.polynomial_size = 8192
  /\ kargs.blockIdx = 1
  /\ BuffersOf(kargs).accumulator_fft = [space |-> "shared", lo |-> 0, hi |-> 65536]
  /\ BuffersOf(kargs).body_res_fft.hi = 2 * (60 * 8192 - 65536)
  /\ BuffersOf(kargs).accumulator_mask.lo = (60 * 8192 - 65536) + 4 * 8192


(***************************************************************************)
(* Claim about the size of the scratch allocation, checked under           *)
(* SpecLaunch.                                                             *)
(***************************************************************************)
\* The scratch of the launch that `last` records, in units: what was given to
\* cudaMalloc, and what the grid needs, the end of the region of the last
\* unit (blockIdx.x = grid - 1) as the kernel computes it.
ScratchAllocated == last.scratch
ScratchNeeded == last.grid * (last.stride \div ScratchUnit)

\* C21: for every batch size the byte count given to the allocation of the
\* global scratch is batch times the per-sample footprint, not that product
\* modulo 2^32, so the region of the last unit of the grid lies inside the
\* allocated buffer.
C21_NoWrapAround ==
  (last.op = "host_bootstrap_amortized" /\ last.kind = "void" /\ last.tier # FULLSM) =>
    /\ last.stride = StrideOf(last.tier, last.torus, last.size)
    /\ ScratchAllocated = last.batch * (StrideOf(last.tier, last.torus, last.size) \div ScratchUnit)
    /\ ScratchNeeded <= ScratchAllocated


(***************************************************************************)
(* Claim about the temporary buffers of the two host entry points, checked *)
(* under SpecHost.                                                         *)
(***************************************************************************)
\* The device buffers that exist in heap h.
LiveIn(h) == {p \in Ptrs : h[p] # NoBuf}

\* Call a is made before call b in the sequence of runtime calls.
CalledBefore(calls, a, b) ==
  \E i, j \in 1..Len(calls) : i < j /\ calls[i] = a /\ calls[j] = b

\* The operations still waiting in the streams that read or write buffer p.
PendingOn(strs, p) ==
  {<<s, i>> \in Handles \X (1..MaxPending) :
     i <= Len(strs[s].queue) /\ (strs[s].queue[i].dst = p \/ strs[s].queue[i].src = p)}

\* C22: a call of the bootstrap or of the key converter that returns has
\* allocated its temporary buffer once and freed it once, so that the buffers
\* of the device and its free memory are what they were before the call; the
\* bootstrap frees its scratch after it has synchronized the stream, and no
\* buffer that the call freed is read or written by work still waiting in a
\* stream when the call returns, nor is the FFT kernel of the key converter
\* still waiting.
C22_Stated ==
  (Called(Bootstrap) \/ Called(Converter)) =>
    /\ CountOf(last'.calls, "cudaMalloc") = 1
    /\ CountOf(last'.calls, "cudaFree") = 1
    /\ CalledBefore(last'.calls, "cudaMalloc", "cudaFree")
    /\ LiveIn(heap') = LiveIn(heap)
    /\ freeMem' = freeMem
    /\ Called(Bootstrap) =>
         /\ CalledBefore(last'.calls, "cudaStreamSynchronize", "cudaFree")
         /\ streams'[last'.stream].queue = <<>>
    /\ \A p \in LiveIn(heap) \ LiveIn(heap') : PendingOn(streams', p) = {}
    /\ Called(Converter) =>
         \A i \in 1..Len(streams'[last'.stream].queue) :
            streams'[last'.stream].queue[i].op # "FFT"

C22_TemporaryBuffers == [][C22_Stated]_vars


(***************************************************************************)
(* device.cu:23-25, "A safe wrapper around it must call                    *)
(* cuda_check_valid_malloc() first": host threads that each validate a     *)
(* request and, when the validation returned 0, allocate it.  The threads  *)
(* share the devices; a call of one may come between the two calls of      *)
(* another.                                                                *)
(***************************************************************************)
RequestSizes == {TotalMem \div 2, TotalMem}

\* Thread c calls cuda_check_valid_malloc(size, gpu_index) and keeps what it
\* returned.
SafeMalloc_Validate(c, size, gpu_index) ==
  /\ callers[c].pc = "start"
  /\ cuda_check_valid_malloc(size, gpu_index)
  /\ callers' = [callers EXCEPT ![c] = [pc |-> IF last'.ret = 0 THEN "validated" ELSE "refused",
                                        size |-> size, gpu |-> gpu_index]]

\* Thread c, whose validation returned 0, calls cuda_malloc with the same
\* arguments.
SafeMalloc_Allocate(c) ==
  /\ callers[c].pc = "validated"
  /\ cuda_malloc(callers[c].size, callers[c].gpu)
  /\ callers' = [callers EXCEPT ![c].pc = IF last'.kind = "exit" THEN "failed" ELSE "allocated"]

InitAlloc == InitRM /\ KernelIdle

NextAlloc ==
  \/ \E c \in Callers, sz \in RequestSizes, g \in GpuIndexes : SafeMalloc_Validate(c, sz, g)
  \/ \E c \in Callers : SafeMalloc_Allocate(c)

SpecAlloc == InitAlloc /\ [][NextAlloc]_vars

\* C23: validation followed by allocation is atomic with respect to the other
\* allocations on the device: once cuda_check_valid_malloc(size, gpu) has
\* returned 0 to a thread, the device keeps at least size bytes free until
\* that thread's cuda_malloc(size, gpu), whatever the other threads validate
\* and allocate in between, and that cuda_malloc does not fail.
C23_ValidateThenAllocate ==
  \A c \in Callers :
    /\ callers[c].pc = "validated" => callers[c].size <= freeMem[callers[c].gpu]
    /\ callers[c].pc # "failed"

====
